---- MODULE Spec2Model ----
(***************************************************************************)
(* Model of the LHL Game Hub data pipeline (scripts/update_data.sh and its *)
(* helpers) and of the games API (src/app/api/games/route.ts).             *)
(*                                                                         *)
(* Text is modelled character by character: a string is a sequence of      *)
(* one-character strings, so that trimming, comparison, parsing and        *)
(* formatting are computed and not assumed.                                *)
(***************************************************************************)
EXTENDS Naturals, Integers, Sequences, FiniteSets, TLC

(***************************************************************************)
(* Bounds of the model.                                                    *)
(***************************************************************************)
MaxGames == 3
MaxRecs == 3
MaxSeasonYear == 2025
MaxRuns == 2
MaxMonths == 2
MaxRows == 1
MaxGateRows == 3
MaxLines == 3
MaxTeams == 3

(***************************************************************************)
(* Characters and strings.                                                 *)
(***************************************************************************)
\* The characters the model uses, in code point order.  For these
\* characters, in the strings the model compares, code point order and the
\* collation used by localeCompare agree.
Alphabet ==
  << " ", "(", ")", "-", "0", "1", "2", "3", "4", "5", "6", "7", "8", "9",
     "A", "B", "D", "F", "J", "M", "N", "O", "P", "S", "T", "W", "X", "Y",
     "_", "a", "b", "c", "d", "e", "g", "h", "i", "l", "n", "o", "p", "r", "s",
     "t", "u", "v", "y", "z" >>

Code(c) == CHOOSE i \in 1..Len(Alphabet) : Alphabet[i] = c

Digits == << "0", "1", "2", "3", "4", "5", "6", "7", "8", "9" >>

IsDigit(c) == \E i \in 1..10 : Digits[i] = c

DigitVal(c) == (CHOOSE i \in 1..10 : Digits[i] = c) - 1

RECURSIVE StripLeft(_)
StripLeft(s) ==
  IF s # << >> /\ Head(s) = " " THEN StripLeft(Tail(s)) ELSE s

RECURSIVE StripRight(_)
StripRight(s) ==
  IF s # << >> /\ s[Len(s)] = " " THEN StripRight(SubSeq(s, 1, Len(s) - 1)) ELSE s

\* String.prototype.trim / str.strip
Trim(s) == StripRight(StripLeft(s))

\* a.localeCompare(b): -1, 0 or 1
RECURSIVE localeCompare(_, _)
localeCompare(a, b) ==
  IF a = << >> /\ b = << >> THEN 0
  ELSE IF a = << >> THEN -1
  ELSE IF b = << >> THEN 1
  ELSE IF Code(Head(a)) < Code(Head(b)) THEN -1
  ELSE IF Code(Head(a)) > Code(Head(b)) THEN 1
  ELSE localeCompare(Tail(a), Tail(b))

\* r.get(k) or "" ; g.field || ""
Get(r, k) == IF k \in DOMAIN r THEN r[k] ELSE << >>

(***************************************************************************)
(* Games API: sortGamesAsc (route.ts).                                     *)
(***************************************************************************)
\* The comparator of sortGamesAsc with a missing date ordered first.
compareGamesMissingFirst(a, b) ==
  LET ad == Trim(Get(a, "game_date_iso"))
      bd == Trim(Get(b, "game_date_iso"))
  IN  IF ad = << >> /\ bd = << >> THEN 0
      ELSE IF ad = << >> THEN -1
      ELSE IF bd = << >> THEN 1
      ELSE IF ad # bd THEN localeCompare(ad, bd)
      ELSE localeCompare(Trim(Get(a, "time")), Trim(Get(b, "time")))

\* The comparator passed to games.sort in sortGamesAsc.
compareGames(a, b) ==
  LET ad == Trim(Get(a, "game_date_iso"))
      bd == Trim(Get(b, "game_date_iso"))
  IN  IF ad = << >> /\ bd = << >> THEN 0
      ELSE IF ad = << >> THEN 1
      ELSE IF bd = << >> THEN -1
      ELSE IF ad # bd THEN localeCompare(ad, bd)
      ELSE localeCompare(Trim(Get(a, "time")), Trim(Get(b, "time")))

\* Array.prototype.sort is stable: x goes after every element that does not
\* compare greater than it.
RECURSIVE InsertGame(_, _)
InsertGame(x, s) ==
  IF s = << >> THEN << x >>
  ELSE IF compareGames(Head(s), x) > 0 THEN << x >> \o s
  ELSE << Head(s) >> \o InsertGame(x, Tail(s))

RECURSIVE SortFrom(_, _)
SortFrom(done, todo) ==
  IF todo = << >> THEN done
  ELSE SortFrom(InsertGame(Head(todo), done), Tail(todo))

sortGamesAsc(games) == SortFrom(<< >>, games)

(***************************************************************************)
(* Game records and their parsing (combine_dedupe.py).                     *)
(***************************************************************************)
\* Columns of a per-month extract.
FIELDNAMES ==
  << "scraped_at", "date_text", "time", "away", "away_score", "home",
     "home_score", "game_code", "venue", "game_url" >>

GameFields == { FIELDNAMES[i] : i \in 1..Len(FIELDNAMES) }

\* A row that lacks a required column is malformed and is skipped.
IsMalformed(r) == ~(GameFields \subseteq DOMAIN r)

\* Every field value is trimmed once, at the parse boundary.
ParseRow(r) == [ k \in GameFields |-> Trim(r[k]) ]

\* Reading stops at the first malformed row.
RECURSIVE LoadRowsUntilMalformed(_)
LoadRowsUntilMalformed(rows) ==
  IF rows = << >> \/ IsMalformed(Head(rows)) THEN << >>
  ELSE << ParseRow(Head(rows)) >> \o LoadRowsUntilMalformed(Tail(rows))

RECURSIVE LoadRows(_)
LoadRows(rows) ==
  IF rows = << >> THEN << >>
  ELSE IF IsMalformed(Head(rows)) THEN LoadRows(Tail(rows))
  ELSE << ParseRow(Head(rows)) >> \o LoadRows(Tail(rows))

(***************************************************************************)
(* Season-Year Resolver (combine_dedupe.py).                               *)
(***************************************************************************)
MonthNames ==
  << << "J", "a", "n" >>, << "F", "e", "b" >>, << "M", "a", "r" >>,
     << "A", "p", "r" >>, << "M", "a", "y" >>, << "J", "u", "n" >>,
     << "J", "u", "l" >>, << "A", "u", "g" >>, << "S", "e", "p" >>,
     << "O", "c", "t" >>, << "N", "o", "v" >>, << "D", "e", "c" >> >>

\* The text up to the first space, and the text after it.
RECURSIVE FirstToken(_)
FirstToken(s) ==
  IF s = << >> \/ Head(s) = " " THEN << >>
  ELSE << Head(s) >> \o FirstToken(Tail(s))

RestAfterToken(s) == StripLeft(SubSeq(s, Len(FirstToken(s)) + 1, Len(s)))

\* 1..12, or 0 when the token is not a month name.
ParseMonth(tok) ==
  IF \E m \in 1..12 : MonthNames[m] = tok
  THEN CHOOSE m \in 1..12 : MonthNames[m] = tok
  ELSE 0

\* The value of one or two digits, or 0 when the token is not a day number.
ParseDay(tok) ==
  IF Len(tok) = 1 /\ IsDigit(tok[1]) THEN DigitVal(tok[1])
  ELSE IF Len(tok) = 2 /\ IsDigit(tok[1]) /\ IsDigit(tok[2])
       THEN 10 * DigitVal(tok[1]) + DigitVal(tok[2])
  ELSE 0

IsLeap(y) == (y % 4 = 0 /\ y % 100 # 0) \/ y % 400 = 0

DaysInMonth(y, m) ==
  IF m = 2 THEN (IF IsLeap(y) THEN 29 ELSE 28)
  ELSE IF m \in { 4, 6, 9, 11 } THEN 30
  ELSE 31

Pad2(n) == << Digits[((n \div 10) % 10) + 1], Digits[(n % 10) + 1] >>

Pad4(n) == Pad2(n \div 100) \o Pad2(n % 100)

FormatIso(y, m, d) == Pad4(y) \o << "-" >> \o Pad2(m) \o << "-" >> \o Pad2(d)

\* Every month belongs to the season's first calendar year.
SeasonYearNoRollover(season_start_year, m) == season_start_year

\* October, November and December belong to season_start_year, every
\* earlier month to the year after it.
SeasonYear(season_start_year, m) ==
  IF m >= 10 THEN season_start_year ELSE season_start_year + 1

\* The ISO date of a display date such as "Dec 03 (Wed)", or "" when the
\* month cannot be parsed or the day is out of range.
ResolveDate(date_text, season_start_year) ==
  LET t  == Trim(date_text)
      m  == ParseMonth(FirstToken(t))
      d  == ParseDay(FirstToken(RestAfterToken(t)))
      y  == SeasonYear(season_start_year, m)
  IN  IF m = 0 \/ d < 1 THEN << >>
      ELSE IF d > DaysInMonth(y, m) THEN << >>
      ELSE FormatIso(y, m, d)

AddIsoDate(r, season_start_year) ==
  [ k \in GameFields \cup { "game_date_iso" } |->
      IF k = "game_date_iso" THEN ResolveDate(r.date_text, season_start_year)
      ELSE r[k] ]

\* The resolver with records that have no resolvable date left out.
ResolveAllDroppingUndated(rows, season_start_year) ==
  LET dated == SelectSeq(rows, LAMBDA r : ResolveDate(r.date_text, season_start_year) # << >>)
  IN  [ i \in 1..Len(dated) |-> AddIsoDate(dated[i], season_start_year) ]

ResolveAll(rows, season_start_year) ==
  [ i \in 1..Len(rows) |-> AddIsoDate(rows[i], season_start_year) ]

(***************************************************************************)
(* Deduplicator (combine_dedupe.py).                                       *)
(***************************************************************************)
\* Identity by game_url alone, blank or not.
IdentityUrlOnly(r) == << "url", r.game_url >>

\* Identity of a logical game: game_url when non-blank, else the fallback
\* tuple.
Identity(r) ==
  IF r.game_url # << >> THEN << "url", r.game_url >>
  ELSE << "tuple", r.date_text, r.time, r.away, r.home, r.game_code, r.venue >>

\* A record is played iff both scores are non-blank.
Played(r) == r.away_score # << >> /\ r.home_score # << >>

\* The merge policy with completeness ignored: the later scraped_at wins.
BetterLatestOnly(new, old) ==
  localeCompare(new.scraped_at, old.scraped_at) > 0

\* The merge policy replaced by "the last row read wins".
BetterNewest(new, old) == TRUE

\* The merge policy with the tie-break turned round: the earlier scraped_at
\* wins among equally complete records.
BetterEarliest(new, old) ==
  \/ Played(new) /\ ~Played(old)
  \/ /\ Played(new) = Played(old)
     /\ localeCompare(new.scraped_at, old.scraped_at) < 0

\* The merge policy: a played record beats an unplayed one; when both are
\* equally complete the later scraped_at wins.
Better(new, old) ==
  \/ Played(new) /\ ~Played(old)
  \/ /\ Played(new) = Played(old)
     /\ localeCompare(new.scraped_at, old.scraped_at) > 0

\* r merged into the records kept so far: a new identity is appended, a
\* known one keeps its place and holds the better of the two records.
MergeInto(kept, r) ==
  IF \E i \in 1..Len(kept) : Identity(kept[i]) = Identity(r)
  THEN [ i \in 1..Len(kept) |->
           IF Identity(kept[i]) = Identity(r) /\ Better(r, kept[i])
           THEN r ELSE kept[i] ]
  ELSE Append(kept, r)

RECURSIVE DedupeFrom(_, _)
DedupeFrom(kept, rows) ==
  IF rows = << >> THEN kept
  ELSE DedupeFrom(MergeInto(kept, Head(rows)), Tail(rows))

Dedupe(rows) == DedupeFrom(<< >>, rows)

(***************************************************************************)
(* Combiner/Sorter (combine_dedupe.py, --sort asc).                        *)
(***************************************************************************)
\* -1, 0 or 1: ascending game_date_iso, records without one last, ties
\* broken by time.
compareRecords(a, b) ==
  IF a.game_date_iso = << >> /\ b.game_date_iso # << >> THEN 1
  ELSE IF a.game_date_iso # << >> /\ b.game_date_iso = << >> THEN -1
  ELSE IF a.game_date_iso # b.game_date_iso
       THEN localeCompare(a.game_date_iso, b.game_date_iso)
  ELSE localeCompare(a.time, b.time)

RECURSIVE InsertRecord(_, _)
InsertRecord(x, s) ==
  IF s = << >> THEN << x >>
  ELSE IF compareRecords(Head(s), x) > 0 THEN << x >> \o s
  ELSE << Head(s) >> \o InsertRecord(x, Tail(s))

RECURSIVE SortRecordsFrom(_, _)
SortRecordsFrom(done, todo) ==
  IF todo = << >> THEN done
  ELSE SortRecordsFrom(InsertRecord(Head(todo), done), Tail(todo))

SortRecords(rows) == SortRecordsFrom(<< >>, rows)

\* load all extracts -> resolve dates -> dedupe -> sort
Combine(rows, season_start_year) ==
  SortRecords(Dedupe(ResolveAll(LoadRows(rows), season_start_year)))

(***************************************************************************)
(* Change-Detection Gate: normalization (update script, helpers).          *)
(***************************************************************************)
\* -1, 0 or 1: tuples of strings compared as Python compares them.
RECURSIVE compareKeys(_, _)
compareKeys(k1, k2) ==
  IF k1 = << >> /\ k2 = << >> THEN 0
  ELSE IF k1 = << >> THEN -1
  ELSE IF k2 = << >> THEN 1
  ELSE IF localeCompare(Head(k1), Head(k2)) # 0
       THEN localeCompare(Head(k1), Head(k2))
  ELSE compareKeys(Tail(k1), Tail(k2))

\* The content key without the two scores.
keyWithoutScores(r) ==
  << Trim(Get(r, "date_text")), Trim(Get(r, "time")), Trim(Get(r, "away")),
     Trim(Get(r, "home")), Trim(Get(r, "game_code")), Trim(Get(r, "venue")),
     Trim(Get(r, "game_url")) >>

\* key(r) of normalize_csv_ignore_scraped_at
key(r) ==
  << Trim(Get(r, "date_text")), Trim(Get(r, "time")), Trim(Get(r, "away")),
     Trim(Get(r, "home")), Trim(Get(r, "game_code")), Trim(Get(r, "venue")),
     Trim(Get(r, "game_url")), Trim(Get(r, "away_score")),
     Trim(Get(r, "home_score")) >>

\* str.lower on the letters of the alphabet
LowerChar(c) ==
  CASE c = "A" -> "a" [] c = "B" -> "b" [] c = "D" -> "d" [] c = "N" -> "n"
    [] c = "O" -> "o" [] c = "P" -> "p" [] c = "S" -> "s" [] c = "T" -> "t"
    [] c = "Y" -> "y" [] OTHER -> c

Lower(s) == [ i \in 1..Len(s) |-> LowerChar(s[i]) ]

STANDINGS_FIELDNAMES ==
  << "scraped_at", "team", "gp", "w", "l", "t", "pts",
     "w_pct", "gf", "ga", "diff", "gf_pct", "l10", "strk" >>

StandingsFields == { STANDINGS_FIELDNAMES[i] : i \in 1..Len(STANDINGS_FIELDNAMES) }

\* The standings key reduced to the team.
standingsKeyTeamOnly(r) == << Lower(Trim(Get(r, "team"))) >>

\* key(r) of normalize_standings_csv
standingsKey(r) ==
  << Lower(Trim(Get(r, "team"))), Trim(Get(r, "gp")), Trim(Get(r, "w")) >>

\* rows.sort(key=...): a stable sort by the key of the given schema
RowKey(r, schema) == IF schema = "games" THEN key(r) ELSE standingsKey(r)

RECURSIVE InsertRow(_, _, _)
InsertRow(x, s, schema) ==
  IF s = << >> THEN << x >>
  ELSE IF compareKeys(RowKey(Head(s), schema), RowKey(x, schema)) > 0
       THEN << x >> \o s
  ELSE << Head(s) >> \o InsertRow(x, Tail(s), schema)

RECURSIVE SortRowsFrom(_, _, _)
SortRowsFrom(done, todo, schema) ==
  IF todo = << >> THEN done
  ELSE SortRowsFrom(InsertRow(Head(todo), done, schema), Tail(todo), schema)

\* The normalized row with its scraped_at kept.
NormalRowKeepStamp(r, fields) == [ k \in fields |-> Trim(Get(r, k)) ]

\* r2 = {k: (r.get(k) or "").strip() for k in FIELDNAMES}; r2["scraped_at"] = ""
NormalRow(r, fields) ==
  [ k \in fields |-> IF k = "scraped_at" THEN << >> ELSE Trim(Get(r, k)) ]

\* The rows written after the header of the .norm file.
normalize_csv_ignore_scraped_at(rows) ==
  LET sorted == SortRowsFrom(<< >>, rows, "games")
  IN  [ i \in 1..Len(sorted) |-> NormalRow(sorted[i], GameFields) ]

normalize_standings_csv(rows) ==
  LET sorted == SortRowsFrom(<< >>, rows, "standings")
  IN  [ i \in 1..Len(sorted) |-> NormalRow(sorted[i], StandingsFields) ]

Normalize(rows, schema) ==
  IF schema = "games" THEN normalize_csv_ignore_scraped_at(rows)
  ELSE normalize_standings_csv(rows)

\* The .norm file the normalizer writes: csv.DictWriter ends the header line
\* and every row with "\r\n".
NormFile(rows, schema) == [ eol |-> "\r\n", rows |-> Normalize(rows, schema) ]

\* The baseline written by printf when no extract is stored: the header
\* line ended with "\n", and no rows.
EmptyBaseline == [ eol |-> "\n", rows |-> << >> ]

\* cmp -s of the two .norm files with its result inverted.
SameNormalizedInverted(candidate, hasBaseline, baseline, schema) ==
  NormFile(candidate, schema) #
    (IF hasBaseline THEN NormFile(baseline, schema) ELSE EmptyBaseline)

\* cmp -s of the two .norm files, byte for byte.
SameNormalized(candidate, hasBaseline, baseline, schema) ==
  NormFile(candidate, schema) =
    (IF hasBaseline THEN NormFile(baseline, schema) ELSE EmptyBaseline)

(***************************************************************************)
(* csv_to_json.mjs                                                         *)
(***************************************************************************)
\* Header of data/combined.csv: the extract columns and the resolved date.
COMBINED_HEADER == FIELDNAMES \o << "game_date_iso" >>

CombinedFields == { COMBINED_HEADER[i] : i \in 1..Len(COMBINED_HEADER) }

\* The file combine_dedupe.py writes: the header and one line per record,
\* each line the record's values in header order.
CsvOf(rows) ==
  [ header |-> COMBINED_HEADER,
    lines  |-> [ i \in 1..Len(rows) |->
                 [ j \in 1..Len(COMBINED_HEADER) |-> rows[i][COMBINED_HEADER[j]] ] ] ]

\* skipEmptyLines: a line that is one empty field is dropped.
RECURSIVE SkipEmptyLines(_)
SkipEmptyLines(lines) ==
  IF lines = << >> THEN << >>
  ELSE IF Head(lines) = << << >> >> THEN SkipEmptyLines(Tail(lines))
  ELSE << Head(lines) >> \o SkipEmptyLines(Tail(lines))

\* Parse errors that are never reported.
HasParseErrorsIgnored(csv) == FALSE

\* parsed.errors: TooFewFields or TooManyFields for a line whose field count
\* is not the header's.
HasParseErrors(csv) ==
  \E i \in 1..Len(SkipEmptyLines(csv.lines)) :
    Len(SkipEmptyLines(csv.lines)[i]) # Len(csv.header)

\* parsed.data with header: true: one object per line, each field under the
\* header name of its column, fields beyond the header under __parsed_extra.
ParsedData(csv) ==
  LET lines == SkipEmptyLines(csv.lines)
      n == Len(csv.header)
      Object(line) ==
        [ k \in { csv.header[j] : j \in 1..(IF Len(line) < n THEN Len(line) ELSE n) }
                 \cup (IF Len(line) > n THEN { "__parsed_extra" } ELSE { }) |->
            IF k = "__parsed_extra" THEN SubSeq(line, n + 1, Len(line))
            ELSE line[CHOOSE j \in 1..n : csv.header[j] = k] ]
  IN  [ i \in 1..Len(lines) |-> Object(lines[i]) ]

(***************************************************************************)
(* Standings page: loadStandings and SortableStandingsTable.               *)
(***************************************************************************)
\* type StandingRow: the columns loadStandings keeps.
StandingRowKeys ==
  { "scraped_at", "team", "gp", "w", "l", "t", "pts", "gf", "ga", "l10", "strk" }

\* parseRow: each kept column trimmed, "" when the column is missing.
parseRow(columns) == [ k \in StandingRowKeys |-> Trim(Get(columns, k)) ]

loadStandings(lines) == [ i \in 1..Len(lines) |-> parseRow(lines[i]) ]

\* Number(value) is finite: digits, with or without a minus sign.
IsNumber(value) ==
  LET digits == IF value # << >> /\ Head(value) = "-" THEN Tail(value) ELSE value
  IN  digits # << >> /\ \A i \in 1..Len(digits) : IsDigit(digits[i])

RECURSIVE DigitsValue(_)
DigitsValue(digits) ==
  IF digits = << >> THEN 0
  ELSE 10 * DigitsValue(SubSeq(digits, 1, Len(digits) - 1))
         + DigitVal(digits[Len(digits)])

NumberOf(value) ==
  IF Head(value) = "-" THEN 0 - DigitsValue(Tail(value)) ELSE DigitsValue(value)

\* String(n) of an integer
RECURSIVE NaturalString(_)
NaturalString(n) ==
  IF n < 10 THEN << Digits[n + 1] >>
  ELSE NaturalString(n \div 10) \o << Digits[(n % 10) + 1] >>

StringOf(v) ==
  IF ~v.isNumber THEN v.text
  ELSE IF v.number < 0 THEN << "-" >> \o NaturalString(0 - v.number)
  ELSE NaturalString(v.number)

\* parseValue: "" for a blank, the number when the text is one, else the
\* text in lower case.
parseValue(value) ==
  IF value = << >> THEN [ isNumber |-> FALSE, number |-> 0, text |-> << >> ]
  ELSE IF IsNumber(value)
       THEN [ isNumber |-> TRUE, number |-> NumberOf(value), text |-> << >> ]
  ELSE [ isNumber |-> FALSE, number |-> 0, text |-> Lower(value) ]

\* compare(direction, key)(a, b)
compare(direction, sortKey, a, b) ==
  LET va == parseValue(a[sortKey])
      vb == parseValue(b[sortKey])
  IN  IF va.isNumber /\ vb.isNumber
      THEN (IF direction = "asc" THEN va.number - vb.number
            ELSE vb.number - va.number)
      ELSE IF va = vb THEN 0
      ELSE IF direction = "asc"
           THEN (IF localeCompare(StringOf(va), StringOf(vb)) < 0 THEN -1 ELSE 1)
      ELSE (IF localeCompare(StringOf(va), StringOf(vb)) < 0 THEN 1 ELSE -1)

\* [...standings].sort(compare(direction, sortKey)): a stable sort
RECURSIVE InsertStanding(_, _, _, _)
InsertStanding(x, s, direction, sortKey) ==
  IF s = << >> THEN << x >>
  ELSE IF compare(direction, sortKey, Head(s), x) > 0 THEN << x >> \o s
  ELSE << Head(s) >> \o InsertStanding(x, Tail(s), direction, sortKey)

RECURSIVE SortStandingsFrom(_, _, _, _)
SortStandingsFrom(done, todo, direction, sortKey) ==
  IF todo = << >> THEN done
  ELSE SortStandingsFrom(InsertStanding(Head(todo), done, direction, sortKey),
                         Tail(todo), direction, sortKey)

\* The rows of the table as first displayed: useState("pts"), useState("desc").
SortableStandingsTable(standings) ==
  SortStandingsFrom(<< >>, standings, "desc", "pts")

(***************************************************************************)
(* Games API: GET /api/games (route.ts).                                   *)
(***************************************************************************)
\* String.prototype.includes
Includes(s, q) ==
  \E i \in 0..(Len(s) - Len(q)) : SubSeq(s, i + 1, i + Len(q)) = q

\* GET with the team filter tried before all=1.
GETTeamFirst(team, all, stored) ==
  LET q == Lower(Trim(team))
      games == IF Trim(team) # << >>
               THEN SelectSeq(stored, LAMBDA g :
                      \/ Includes(Lower(Get(g, "away")), q)
                      \/ Includes(Lower(Get(g, "home")), q))
               ELSE IF Trim(all) = << "1" >> THEN stored
               ELSE << >>
  IN  sortGamesAsc(games)

\* The games GET returns for the search parameters team and all (an absent
\* parameter is "") over the games read from data/games.json.
GET(team, all, stored) ==
  LET q == Lower(Trim(team))
      games == IF Trim(all) = << "1" >> THEN stored
               ELSE IF Trim(team) # << >>
               THEN SelectSeq(stored, LAMBDA g :
                      \/ Includes(Lower(Get(g, "away")), q)
                      \/ Includes(Lower(Get(g, "home")), q))
               ELSE << >>
  IN  sortGamesAsc(games)

(***************************************************************************)
(* Game Scores page (app/page.tsx): dates, search, suggestions, effects.   *)
(***************************************************************************)
\* function isPlayed(g)
isPlayed(g) ==
  Trim(Get(g, "away_score")) # << >> /\ Trim(Get(g, "home_score")) # << >>

\* new Date(y, mo, da) as a local calendar day, counted from 2000-01-01; mo
\* counts from 0, and a month or day out of range rolls over.
LocalDay(y, mo, da) ==
  LET yy == y + (mo \div 12)
      mm == (mo % 12) + 1
      before == << 0, 31, 59, 90, 120, 151, 181, 212, 243, 273, 304, 334 >>
      leaps == ((yy - 1) \div 4) - ((yy - 1) \div 100) + ((yy - 1) \div 400) - 484
  IN  365 * (yy - 2000) + leaps + before[mm]
        + (IF IsLeap(yy) /\ mm > 2 THEN 1 ELSE 0) + (da - 1)

\* function parseIsoDateLocal(iso): << >> for null, else the local day in a
\* one-element sequence.
parseIsoDateLocal(iso) ==
  IF /\ Len(iso) = 10
     /\ \A i \in { 1, 2, 3, 4, 6, 7, 9, 10 } : IsDigit(iso[i])
     /\ iso[5] = "-" /\ iso[8] = "-"
  THEN << LocalDay(1000 * DigitVal(iso[1]) + 100 * DigitVal(iso[2])
                     + 10 * DigitVal(iso[3]) + DigitVal(iso[4]),
                   10 * DigitVal(iso[6]) + DigitVal(iso[7]) - 1,
                   10 * DigitVal(iso[9]) + DigitVal(iso[10])) >>
  ELSE << >>

\* Date.prototype.getTime of the local midnight that starts the day, in
\* hours.  In America/Toronto the clocks go forward on 2026-03-08 and back
\* on 2026-11-01.
getTime(day, zone) ==
  24 * day + (IF zone = "UTC" THEN 0
              ELSE IF day > LocalDay(2026, 2, 8) /\ day <= LocalDay(2026, 10, 1)
              THEN 4 ELSE 5)

\* withinNextDays with the end of the window included.
withinNextDaysInclusive(date, days, today, zone) ==
  LET start == getTime(today, zone)
      end == start + days * 24
      t == getTime(date, zone)
  IN  t >= start /\ t <= end

\* function withinNextDays(date, days), today being startOfTodayLocal()
withinNextDays(date, days, today, zone) ==
  LET start == getTime(today, zone)
      end == start + days * 24
      t == getTime(date, zone)
  IN  t >= start /\ t < end

DEFAULT_UPCOMING_DAYS == 14

\* const suggestions = React.useMemo(...)
suggestions(p) ==
  LET q == Lower(Trim(p.query))
      matching == IF q = << >> THEN p.teams
                  ELSE SelectSeq(p.teams, LAMBDA t : Includes(Lower(t), q))
  IN  SubSeq(matching, 1, IF Len(matching) < 20 THEN Len(matching) ELSE 20)

\* const search = React.useCallback(...), up to its await: the request is
\* in flight afterwards.
search(p, teamText) ==
  LET q == Trim(teamText)
  IN  IF q = << >> THEN p
      ELSE IF Lower(p.lastSearchedRef) = Lower(q) THEN p
      ELSE [ p EXCEPT !.lastSearchedRef = q, !.loadingGames = TRUE,
                      !.fetches = Append(@, q) ]

\* function chooseTeam(t) and function chooseTeamFromCard(t)
chooseTeam(p, t) ==
  search([ p EXCEPT !.query = t, !.openSuggest = FALSE, !.activeIndex = -1,
                    !.lastSearchedRef = << >> ], t)

\* The effects that run after the render of cur, the render before it
\* having been that of prev (mount: the first render), in the order of the
\* component: query cleared -> default view; ?team= parameter; activeIndex
\* clamp; debounced auto-search (its cleanup clears the pending timeout).
\* Each effect reads the state of the render and the refs as they are.
Effects(prev, cur, mount, teamParam) ==
  LET queryChanged == mount \/ prev.query # cur.query
      listChanged == \/ queryChanged
                     \/ prev.teams # cur.teams
                     \/ prev.openSuggest # cur.openSuggest
      cleared == IF queryChanged /\ Trim(cur.query) = << >>
                 THEN [ cur EXCEPT !.view = "upcoming", !.games = << >>,
                                   !.lastSearchedRef = << >> ]
                 ELSE cur
      fromUrl == IF queryChanged /\ Trim(teamParam) # << >>
                 THEN search([ cleared EXCEPT !.query = Trim(teamParam) ],
                             Trim(teamParam))
                 ELSE cleared
      clamped == IF listChanged
                 THEN [ fromUrl EXCEPT !.activeIndex =
                          IF ~cur.openSuggest \/ suggestions(cur) = << >> THEN -1
                          ELSE IF @ < 0 THEN 0
                          ELSE IF @ < Len(suggestions(cur)) - 1 THEN @
                          ELSE Len(suggestions(cur)) - 1 ]
                 ELSE fromUrl
  IN  IF queryChanged
      THEN [ clamped EXCEPT !.timer = IF Len(Trim(cur.query)) >= 2
                                      THEN << Trim(cur.query) >> ELSE << >> ]
      ELSE clamped

\* What React renders from: the useState values.
Rendered(p) ==
  << p.teams, p.loadingTeams, p.query, p.openSuggest, p.activeIndex,
     p.allGames, p.games, p.loadingGames, p.view >>

\* Renders and effects until an effect pass sets no state.
RECURSIVE Settle(_, _, _, _)
Settle(prev, cur, mount, teamParam) ==
  LET next == Effects(prev, cur, mount, teamParam)
  IN  IF Rendered(next) = Rendered(cur) THEN next
      ELSE Settle(cur, next, FALSE, teamParam)

\* const baseGames = query.trim() ? games : allGames
baseGames(p) == IF Trim(p.query) # << >> THEN p.games ELSE p.allGames

\* const defaultUpcoming = React.useMemo(...)
defaultUpcoming(p, today, zone) ==
  SelectSeq(baseGames(p), LAMBDA g :
    /\ ~isPlayed(g)
    /\ LET d == parseIsoDateLocal(Get(g, "game_date_iso"))
       IN  \/ d = << >>
           \/ /\ withinNextDays(d[1], DEFAULT_UPCOMING_DAYS, today, zone)
              /\ getTime(d[1], zone) >= getTime(today, zone))

\* const playedGames = baseGames.filter(isPlayed)
playedGames(p) == SelectSeq(baseGames(p), isPlayed)

\* Upcoming in search mode as in browse mode.
upcomingGamesAlwaysDefault(p, today, zone) == defaultUpcoming(p, today, zone)

\* const upcomingGames = query.trim() ? ... : defaultUpcoming
upcomingGames(p, today, zone) ==
  IF Trim(p.query) # << >>
  THEN SelectSeq(baseGames(p), LAMBDA g : ~isPlayed(g))
  ELSE defaultUpcoming(p, today, zone)

(***************************************************************************)
(* State.                                                                  *)
(***************************************************************************)
VARIABLES
  arg,         \* the input of the function under study
  res,         \* its result
  fn,          \* the function that has been applied, "" before
  exports,     \* exports/: file name -> rows
  combined,    \* data/combined.csv
  gamesJson,   \* data/games.json
  script,      \* the update script that is running or ran last
  MONTHS,      \* its month arguments
  mi,          \* index in MONTHS of the month being processed
  pc,          \* the step the script is at
  exitStatus,  \* exit status of the script once it has ended
  now,         \* number of the current run; its scrapes stamp scraped_at with it
  steps,       \* the programs started and gates taken by the current run, in order
  message,     \* the error message the script printed, "" when none
  lastGate,    \* what the last gate of this run compared and reported
  atStart,     \* data/ as it was when the current run started
  combines,    \* what each successful combine read and wrote, oldest first
  page,        \* the Home component: its useState values, lastSearchedRef,
               \* the requests in flight and the pending debounce timeout
  env,         \* what the page runs in: ?team= parameter, local day, time zone
  userCleared  \* the user emptied the query and has not typed, picked a
               \* team or changed tab since

funVars == << arg, res, fn >>

pipeVars ==
  << exports, combined, gamesJson, script, MONTHS, mi, pc, exitStatus, now,
     steps, message, lastGate, atStart, combines >>

pageVars == << page, env, userCleared >>

vars == << arg, res, fn, exports, combined, gamesJson, script, MONTHS, mi, pc,
           exitStatus, now, steps, message, lastGate, atStart, combines,
           page, env, userCleared >>

NoFile == [ exists |-> FALSE, rows |-> << >> ]

File(rows) == [ exists |-> TRUE, rows |-> rows ]

\* csv_to_json.mjs: the exit status and data/games.json afterwards.  A
\* missing CSV and a parse error both exit 1 before anything is written.
csv_to_json(csvExists, csv, oldJson) ==
  IF ~csvExists THEN [ status |-> 1, json |-> oldJson ]
  ELSE IF HasParseErrors(csv) THEN [ status |-> 1, json |-> oldJson ]
  ELSE [ status |-> 0, json |-> File(ParsedData(csv)) ]

NoGate ==
  [ scope |-> << >>, candidate |-> << >>, hasBaseline |-> FALSE,
    baseline |-> << >>, report |-> "" ]

\* The pipeline at rest with empty directories, while a function is studied.
PipeAtRest ==
  /\ exports = << >>
  /\ combined = NoFile
  /\ gamesJson = NoFile
  /\ script = ""
  /\ MONTHS = << >>
  /\ mi = 1
  /\ pc = "idle"
  /\ exitStatus = 0
  /\ now = 0
  /\ steps = << >>
  /\ message = ""
  /\ lastGate = NoGate
  /\ atStart = [ combined |-> combined, gamesJson |-> gamesJson ]
  /\ combines = << >>

FunAtRest ==
  /\ arg = << >>
  /\ res = << >>
  /\ fn = ""

\* No page is open.
PageAtRest ==
  /\ page = << >>
  /\ env = << >>
  /\ userCleared = FALSE

Range(s) == { s[i] : i \in 1..Len(s) }

\* Sequences over S of length at most n.
SeqUpTo(S, n) == UNION { [1..k -> S] : k \in 0..n }

(***************************************************************************)
(* The games handed to sortGamesAsc: entries of games.json.                *)
(***************************************************************************)
IsoDates ==
  { << >>, << " " >>,
    << "2", "0", "2", "5", "-", "1", "2", "-", "0", "3" >>,
    << "2", "0", "2", "6", "-", "0", "1", "-", "1", "5" >> }

Times == { << >>, << "7", "P" >>, << "9", "A" >> }

ApiGames == [ game_date_iso : IsoDates, time : Times ]

InitSort ==
  /\ arg \in SeqUpTo(ApiGames, MaxGames)
  /\ res = << >>
  /\ fn = ""
  /\ PipeAtRest
  /\ PageAtRest

ApplySort ==
  /\ fn = ""
  /\ res' = sortGamesAsc(arg)
  /\ fn' = "sortGamesAsc"
  /\ UNCHANGED arg
  /\ UNCHANGED << pipeVars, pageVars >>

NextSort == ApplySort

SpecSort == InitSort /\ [][NextSort]_vars

(***************************************************************************)
(* The Season-Year Resolver applied to display dates.                      *)
(***************************************************************************)
\* SEASON_START_YEAR defaults to 2025; 1999 makes the rollover carry.
SeasonYears == { 1999 } \cup (2024..MaxSeasonYear)

MonthTokens == { MonthNames[m] : m \in 1..12 } \cup { << "X", "y", "z" >> }

DayTokens ==
  { << "0", "3" >>, << "1", "5" >>, << "2", "9" >>, << "3", "1" >>,
    << "0", "0" >>, << "3", "2" >>, << "7" >> }

Weekdays == { << >>, << " ", "(", "W", "e", "d", ")" >> }

DateTexts ==
  { m \o << " " >> \o d \o w : m \in MonthTokens, d \in DayTokens, w \in Weekdays }

InitResolve ==
  /\ arg \in [ date_text : DateTexts, season_start_year : SeasonYears ]
  /\ res = << >>
  /\ fn = ""
  /\ PipeAtRest
  /\ PageAtRest

ApplyResolve ==
  /\ fn = ""
  /\ res' = ResolveDate(arg.date_text, arg.season_start_year)
  /\ fn' = "ResolveDate"
  /\ UNCHANGED arg
  /\ UNCHANGED << pipeVars, pageVars >>

NextResolve == ApplyResolve

SpecResolve == InitResolve /\ [][NextResolve]_vars

(***************************************************************************)
(* The combine applied to rows of extracts, in two input orders.           *)
(***************************************************************************)
\* Default season start year for the 2025-26 season.
DefaultSeasonStartYear == 2025

Dec03 == << "D", "e", "c", " ", "0", "3" >>

Jan15 == << "J", "a", "n", " ", "1", "5" >>

Xyz01 == << "X", "y", "z", " ", "0", "1" >>

Feb30 == << "F", "e", "b", " ", "3", "0" >>

G1 == << "g", "1" >>

NoUrl == << " " >>

NoScores == << << >>, << >> >>

Final32 == << << "3" >>, << "2" >> >>

T1 == << "1" >>

T2 == << "2" >>

Row(url, scores, ts, date_text, time) ==
  [ scraped_at |-> ts, date_text |-> date_text, time |-> time,
    away |-> << "A" >>, away_score |-> scores[1],
    home |-> << "B" >>, home_score |-> scores[2],
    game_code |-> << >>, venue |-> << >>, game_url |-> url ]

\* Rows of extracts: one game with a game_url scraped before and after it was
\* played and re-dated, and games without a game_url, one of them on the
\* first game's date and time, one with an unparseable month and one with a
\* day that its month does not have.
DedupeRows ==
  { Row(G1, sc, ts, Dec03, << "7", "P" >>) : sc \in { NoScores, Final32 }, ts \in { T1, T2 } }
  \cup
  { Row(G1, NoScores, T1, Jan15, << "7", "P" >>),
    Row(G1, Final32, T2, Jan15, << "7", "P" >>),
    Row(NoUrl, NoScores, T1, Dec03, << "7", "P" >>),
    Row(NoUrl, Final32, T2, Dec03, << "7", "P" >>),
    Row(NoUrl, NoScores, T1, Jan15, << "9", "A" >>),
    Row(NoUrl, NoScores, T1, Xyz01, << "9", "A" >>),
    Row(NoUrl, NoScores, T1, Feb30, << "9", "A" >>) }

IndexPermutations(n) ==
  { p \in [1..n -> 1..n] : \A i, j \in 1..n : p[i] = p[j] => i = j }

Permuted(rows, p) == [ i \in 1..Len(rows) |-> rows[p[i]] ]

InitCombine ==
  /\ \E rows \in SeqUpTo(DedupeRows, MaxRecs) :
       \E p \in IndexPermutations(Len(rows)) :
         arg = [ rows |-> rows, perm |-> p ]
  /\ res = << >>
  /\ fn = ""
  /\ PipeAtRest
  /\ PageAtRest

ApplyCombine ==
  /\ fn = ""
  /\ res' = [ out |-> Combine(arg.rows, DefaultSeasonStartYear),
              outPerm |-> Combine(Permuted(arg.rows, arg.perm),
                                  DefaultSeasonStartYear) ]
  /\ fn' = "Combine"
  /\ UNCHANGED arg
  /\ UNCHANGED << pipeVars, pageVars >>

NextCombine == ApplyCombine

SpecCombine == InitCombine /\ [][NextCombine]_vars

(***************************************************************************)
(* The update scripts.  "gated" is the update-if-changed script, "plain"   *)
(* is scripts/update_data.sh, which scrapes straight into exports/.        *)
(***************************************************************************)
\* Months you care about (Oct 2025 -> Feb 2026); the model follows the
\* first two of the five.
DEFAULT_MONTHS ==
  << << "2", "0", "2", "5", "-", "1", "0" >>,
     << "2", "0", "2", "5", "-", "1", "1" >> >>

\* Month arguments that fail validation: no leading zero, month 13, month 00.
BadMonths ==
  { << "2", "0", "2", "5", "-", "1" >>,
    << "2", "0", "2", "5", "-", "1", "3" >>,
    << "2", "0", "2", "5", "-", "0", "0" >> }

MonthArgs == Range(DEFAULT_MONTHS) \cup BadMonths

\* ^[0-9]{4}-[0-9]{2}$
IsYearMonth(m) ==
  /\ Len(m) = 7
  /\ \A i \in { 1, 2, 3, 4, 6, 7 } : IsDigit(m[i])
  /\ m[5] = "-"

\* validate_month: the pattern, then "01" <= mm <= "12" as strings
validate_month(m) ==
  /\ IsYearMonth(m)
  /\ LET mm == SubSeq(m, 6, 7)
     IN  ~( localeCompare(mm, << "0", "1" >>) < 0
            \/ localeCompare(mm, << "1", "2" >>) > 0 )

\* STANDINGS_OUT without its directory and extension
STANDINGS_NAME ==
  << "2", "0", "2", "5", "-", "2", "0", "2", "6", "_", "u", "1", "4", "a", "a",
     "_", "s", "t", "a", "n", "d", "i", "n", "g", "s" >>

OUT(scope) == << scope, "csv" >>

TMP(scope) == << scope, "csv.tmp" >>

TMP_NORM(scope) == << scope, "csv.tmp.norm" >>

OUT_NORM(scope) == << scope, "csv.norm" >>

Remove(dir, name) == [ n \in (DOMAIN dir) \ { name } |-> dir[n] ]

Write(dir, name, rows) == (name :> rows) @@ dir

\* rm -f of several files
RemoveAll(dir, names) == [ n \in (DOMAIN dir) \ names |-> dir[n] ]

\* scraped_at of the rows scraped in run n
Stamp(n) == << Digits[n + 1] >>

\* A line that stops after its third column.
ShortRow(ts) ==
  [ scraped_at |-> ts, date_text |-> Dec03, time |-> << "7", "P" >> ]

\* What month_to_scrape.py can write in run n: a game before and after it is
\* played, and a line cut short.
ScrapedGames(n) ==
  { Row(G1, NoScores, Stamp(n), Dec03, << "7", "P" >>),
    Row(G1, Final32, Stamp(n), Dec03, << "7", "P" >>),
    ShortRow(Stamp(n)) }

MonthCandidates(n) == SeqUpTo(ScrapedGames(n), MaxRows)

StandingRow(team, gp, pts, ts) ==
  [ k \in StandingsFields |->
      CASE k = "scraped_at" -> ts
        [] k = "team" -> team
        [] k = "gp" -> gp
        [] k = "pts" -> pts
        [] OTHER -> << >> ]

\* What standings_to_scrape.py can write in run n.
ScrapedStandings(n) ==
  { StandingRow(<< "A", "b" >>, << "1" >>, << "2" >>, Stamp(n)),
    StandingRow(<< "A", "b" >>, << "2" >>, << "4" >>, Stamp(n)) }

StandingsCandidates(n) == SeqUpTo(ScrapedStandings(n), MaxRows)

\* "${EXPORTS_DIR}"/*.csv : the scopes of the matching files, sorted
CsvScopes == { n[1] : n \in { x \in DOMAIN exports : x[2] = "csv" } }

RECURSIVE SortedScopes(_)
SortedScopes(S) ==
  IF S = { } THEN << >>
  ELSE LET first == CHOOSE x \in S : \A y \in S : localeCompare(x, y) <= 0
       IN  << first >> \o SortedScopes(S \ { first })

\* Only the last matched file ("${CSV_FILES[-1]}").
CsvFilesLastOnly ==
  IF CsvScopes = { } THEN << >>
  ELSE << SortedScopes(CsvScopes)[Cardinality(CsvScopes)] >>

CSV_FILES == SortedScopes(CsvScopes)

\* Only the first matched file is handed over ("${CSV_FILES[0]}").
RowsOfFirst(scopes) ==
  IF scopes = << >> THEN << >> ELSE exports[OUT(Head(scopes))]

RECURSIVE RowsOf(_)
RowsOf(scopes) ==
  IF scopes = << >> THEN << >>
  ELSE exports[OUT(Head(scopes))] \o RowsOf(Tail(scopes))

\* A dataset left in data/ by an earlier run.
LastKnownGood ==
  File(Combine(<< Row(G1, NoScores, Stamp(0), Dec03, << "7", "P" >>) >>,
               DefaultSeasonStartYear))

Init ==
  /\ FunAtRest
  /\ PageAtRest
  /\ exports = << >>
  /\ \E d \in { NoFile, LastKnownGood } : combined = d /\ gamesJson = d
  /\ script = ""
  /\ MONTHS = << >>
  /\ mi = 1
  /\ pc = "idle"
  /\ exitStatus = 0
  /\ now = 0
  /\ steps = << >>
  /\ message = ""
  /\ lastGate = NoGate
  /\ atStart = [ combined |-> combined, gamesJson |-> gamesJson ]
  /\ combines = << >>

Exit(status) ==
  /\ pc' = "exited"
  /\ exitStatus' = status

\* The script is started with the given month arguments.  Without
\* arguments the update-if-changed script takes the default months and
\* scripts/update_data.sh skips the scrape.
StartRun(s, args) ==
  /\ pc \in { "idle", "done", "exited" }
  /\ now < MaxRuns
  /\ script' = s
  /\ MONTHS' = IF s = "gated" /\ args = << >> THEN DEFAULT_MONTHS ELSE args
  /\ mi' = 1
  /\ now' = now + 1
  /\ steps' = << >>
  /\ message' = ""
  /\ exitStatus' = 0
  /\ pc' = IF s = "plain" /\ args = << >> THEN "combine" ELSE "month"
  /\ lastGate' = NoGate
  /\ atStart' = [ combined |-> combined, gamesJson |-> gamesJson ]
  /\ UNCHANGED << exports, combined, gamesJson, combines >>
  /\ UNCHANGED << funVars, pageVars >>

MonthAccepted(m) == IF script = "gated" THEN validate_month(m) ELSE IsYearMonth(m)

\* A month argument fails validation: exit 1.
RejectMonth ==
  /\ pc = "month"
  /\ ~MonthAccepted(MONTHS[mi])
  /\ message' = IF IsYearMonth(MONTHS[mi]) THEN "invalid month value"
                 ELSE "must be YYYY-MM"
  /\ Exit(1)
  /\ UNCHANGED << exports, combined, gamesJson, script, MONTHS, mi, now, steps,
                  lastGate, atStart, combines >>
  /\ UNCHANGED << funVars, pageVars >>

\* month_to_scrape.py or standings_to_scrape.py fails; with pipefail and
\* set -e the script ends there.
ScrapeFails ==
  /\ \/ pc = "month" /\ MonthAccepted(MONTHS[mi])
     \/ pc = "standings"
  /\ steps' = Append(steps, IF pc = "month" THEN "month_to_scrape" ELSE "standings_to_scrape")
  /\ Exit(1)
  /\ UNCHANGED << exports, combined, gamesJson, script, MONTHS, mi, now, lastGate, atStart, combines >>
  /\ UNCHANGED << message, funVars, pageVars >>

\* Update-if-changed script: the month is scraped into ${OUT}.tmp.
ScrapeMonth(candidate) ==
  /\ pc = "month"
  /\ script = "gated"
  /\ validate_month(MONTHS[mi])
  /\ exports' = Write(exports, TMP(MONTHS[mi]), candidate)
  /\ lastGate' = NoGate
  /\ steps' = Append(steps, "month_to_scrape")
  /\ pc' = "month_gate"
  /\ UNCHANGED << combined, gamesJson, script, MONTHS, mi, exitStatus, now, atStart, combines >>
  /\ UNCHANGED << message, funVars, pageVars >>

\* What the gate compares for a scope, and what it reports.
GateReport(dir, scope, schema) ==
  LET hasBase == OUT(scope) \in DOMAIN dir
      baseline == IF hasBase THEN dir[OUT(scope)] ELSE << >>
  IN  [ scope |-> scope, candidate |-> dir[TMP(scope)], hasBaseline |-> hasBase,
        baseline |-> baseline,
        report |-> IF SameNormalized(dir[TMP(scope)], hasBase, baseline, schema)
                   THEN "No changes" ELSE "Changes detected" ]

\* Only ${TMP} and ${TMP_NORM} are removed afterwards.
GateKeepingBaselineNorm(dir, scope, schema) ==
  LET hasBase == OUT(scope) \in DOMAIN dir
      normed == Write(Write(dir, TMP_NORM(scope), NormFile(dir[TMP(scope)], schema)),
                      OUT_NORM(scope),
                      IF hasBase THEN NormFile(dir[OUT(scope)], schema)
                      ELSE EmptyBaseline)
  IN  IF SameNormalized(dir[TMP(scope)], hasBase,
                        IF hasBase THEN dir[OUT(scope)] ELSE << >>, schema)
      THEN RemoveAll(normed, { TMP(scope), TMP_NORM(scope) })
      ELSE RemoveAll(Write(Remove(normed, TMP(scope)), OUT(scope), dir[TMP(scope)]),
                     { TMP_NORM(scope) })

\* exports/ after the gate: both .norm files are written and compared, then
\* either the three working files are removed, or the candidate is moved
\* over the stored extract and the two .norm files are removed.
Gate(dir, scope, schema) ==
  LET hasBase == OUT(scope) \in DOMAIN dir
      normed == Write(Write(dir, TMP_NORM(scope), NormFile(dir[TMP(scope)], schema)),
                      OUT_NORM(scope),
                      IF hasBase THEN NormFile(dir[OUT(scope)], schema)
                      ELSE EmptyBaseline)
  IN  IF SameNormalized(dir[TMP(scope)], hasBase,
                        IF hasBase THEN dir[OUT(scope)] ELSE << >>, schema)
      THEN RemoveAll(normed, { TMP(scope), TMP_NORM(scope), OUT_NORM(scope) })
      ELSE RemoveAll(Write(Remove(normed, TMP(scope)), OUT(scope), dir[TMP(scope)]),
                     { TMP_NORM(scope), OUT_NORM(scope) })

GateMonth ==
  /\ pc = "month_gate"
  /\ lastGate' = GateReport(exports, MONTHS[mi], "games")
  /\ exports' = Gate(exports, MONTHS[mi], "games")
  /\ mi' = mi + 1
  /\ steps' = Append(steps, "gate")
  /\ pc' = IF mi = Len(MONTHS) THEN "standings" ELSE "month"
  /\ UNCHANGED << combined, gamesJson, script, MONTHS, exitStatus, now,
                  atStart, combines >>
  /\ UNCHANGED << message, funVars, pageVars >>

ScrapeStandings(candidate) ==
  /\ pc = "standings"
  /\ exports' = Write(exports, TMP(STANDINGS_NAME), candidate)
  /\ lastGate' = NoGate
  /\ steps' = Append(steps, "standings_to_scrape")
  /\ pc' = "standings_gate"
  /\ UNCHANGED << combined, gamesJson, script, MONTHS, mi, exitStatus, now, atStart, combines >>
  /\ UNCHANGED << message, funVars, pageVars >>

GateStandings ==
  /\ pc = "standings_gate"
  /\ lastGate' = GateReport(exports, STANDINGS_NAME, "standings")
  /\ exports' = Gate(exports, STANDINGS_NAME, "standings")
  /\ steps' = Append(steps, "gate")
  /\ pc' = "combine"
  /\ UNCHANGED << combined, gamesJson, script, MONTHS, mi, exitStatus, now,
                  atStart, combines >>
  /\ UNCHANGED << message, funVars, pageVars >>

\* scripts/update_data.sh: the month is scraped straight into ${OUT}.
ScrapeMonthInPlace(candidate) ==
  /\ pc = "month"
  /\ script = "plain"
  /\ IsYearMonth(MONTHS[mi])
  /\ exports' = Write(exports, OUT(MONTHS[mi]), candidate)
  /\ steps' = Append(steps, "month_to_scrape")
  /\ mi' = mi + 1
  /\ pc' = IF mi = Len(MONTHS) THEN "combine" ELSE "month"
  /\ UNCHANGED << combined, gamesJson, script, MONTHS, exitStatus, now, lastGate, atStart, combines >>
  /\ UNCHANGED << message, funVars, pageVars >>

\* Update-if-changed script: [ "${#CSV_FILES[@]}" -eq 0 ]
NoCsvFiles == script = "gated" /\ CSV_FILES = << >>

\* The canonical file with the rows appended to it.
AppendCanonical(old, rows) == File(old.rows \o rows)

\* --out: the canonical file is overwritten completely.
WriteCanonical(old, rows) == File(rows)

\* The combine step in a script without pipefail: the status of the
\* pipeline is that of tee, and the script goes on to the convert step.
CombineStepWithoutPipefail ==
  /\ pc = "combine"
  /\ IF NoCsvFiles
     THEN /\ message' = "No CSV files found"
          /\ Exit(1)
          /\ UNCHANGED << steps, combined, combines >>
     ELSE /\ steps' = Append(steps, "combine_dedupe")
          /\ IF CSV_FILES = << >>
             THEN UNCHANGED << combined, combines >>
             ELSE /\ combined' = WriteCanonical(combined,
                                   Combine(RowsOf(CSV_FILES), DefaultSeasonStartYear))
                  /\ combines' = Append(combines, [ inputs |-> RowsOf(CSV_FILES),
                                                    output |-> combined'.rows ])
          /\ pc' = "convert"
          /\ UNCHANGED << exitStatus, message >>
  /\ UNCHANGED << exports, gamesJson, script, MONTHS, mi, now, lastGate, atStart >>
  /\ UNCHANGED << funVars, pageVars >>

\* The combine step with --out opened for writing before the inputs are
\* read: with nothing to combine, an empty canonical file is left behind.
CombineStepTruncating ==
  /\ pc = "combine"
  /\ IF NoCsvFiles
     THEN /\ message' = "No CSV files found"
          /\ Exit(1)
          /\ UNCHANGED << steps, combined, combines >>
     ELSE /\ steps' = Append(steps, "combine_dedupe")
          /\ UNCHANGED message
          /\ IF CSV_FILES = << >>
             THEN /\ Exit(1)
                  /\ combined' = File(<< >>)
                  /\ UNCHANGED combines
             ELSE /\ combined' = WriteCanonical(combined,
                                   Combine(RowsOf(CSV_FILES), DefaultSeasonStartYear))
                  /\ combines' = Append(combines, [ inputs |-> RowsOf(CSV_FILES),
                                                    output |-> combined'.rows ])
                  /\ pc' = "convert"
                  /\ UNCHANGED exitStatus
  /\ UNCHANGED << exports, gamesJson, script, MONTHS, mi, now, lastGate, atStart >>
  /\ UNCHANGED << funVars, pageVars >>

\* The combine section.  The update-if-changed script first checks that the
\* pattern matched a file ("No CSV files found. Nothing to combine.": exit
\* 1).  Then combine_dedupe.py is started on the files the pattern matched;
\* when it matched none (scripts/update_data.sh passes the pattern itself)
\* there is nothing to combine: it fails and writes nothing.
CombineStep ==
  /\ pc = "combine"
  /\ IF NoCsvFiles
     THEN /\ message' = "No CSV files found"
          /\ Exit(1)
          /\ UNCHANGED << steps, combined, combines >>
     ELSE /\ steps' = Append(steps, "combine_dedupe")
          /\ UNCHANGED message
          /\ IF CSV_FILES = << >>
             THEN /\ Exit(1)
                  /\ UNCHANGED << combined, combines >>
             ELSE /\ combined' = WriteCanonical(combined,
                                   Combine(RowsOf(CSV_FILES), DefaultSeasonStartYear))
                  /\ combines' = Append(combines, [ inputs |-> RowsOf(CSV_FILES),
                                                    output |-> combined'.rows ])
                  /\ pc' = "convert"
                  /\ UNCHANGED exitStatus
  /\ UNCHANGED << exports, gamesJson, script, MONTHS, mi, now, lastGate, atStart >>
  /\ UNCHANGED << funVars, pageVars >>

\* csv_to_json.mjs: data/combined.csv -> data/games.json
ConvertStep ==
  /\ pc = "convert"
  /\ steps' = Append(steps, "csv_to_json")
  /\ LET ran == csv_to_json(combined.exists, CsvOf(combined.rows), gamesJson)
     IN  /\ gamesJson' = ran.json
         /\ exitStatus' = ran.status
         /\ pc' = IF ran.status = 0 THEN "done" ELSE "exited"
  /\ UNCHANGED << exports, combined, script, MONTHS, mi, now, lastGate, atStart, combines >>
  /\ UNCHANGED << message, funVars, pageVars >>

Next ==
  \/ \E args \in SeqUpTo(MonthArgs, MaxMonths) :
       \E s \in { "gated", "plain" } : StartRun(s, args)
  \/ RejectMonth
  \/ ScrapeFails
  \/ \E c \in MonthCandidates(now) : ScrapeMonth(c)
  \/ GateMonth
  \/ \E c \in StandingsCandidates(now) : ScrapeStandings(c)
  \/ GateStandings
  \/ \E c \in MonthCandidates(now) : ScrapeMonthInPlace(c)
  \/ CombineStep
  \/ ConvertStep

Spec == Init /\ [][Next]_vars

(***************************************************************************)
(* The gate applied to a candidate and a baseline of one scope.            *)
(***************************************************************************)
Padded(r, k) == [ r EXCEPT ![k] = << " " >> \o r[k] \o << " " >> ]

\* Rows of a month extract: a game, the same game padded with blanks and
\* stamped later, the game once played, another game, and a line cut short.
GateGameRows ==
  { Row(G1, NoScores, T1, Dec03, << "7", "P" >>),
    Padded(Row(G1, NoScores, T2, Dec03, << "7", "P" >>), "away"),
    Row(G1, Final32, T1, Dec03, << "7", "P" >>),
    Row(NoUrl, NoScores, T2, Jan15, << "9", "A" >>),
    ShortRow(T1) }

\* Rows of a standings extract: a team, the same row padded and stamped
\* later, the team a game on, a team whose name differs in case only, and
\* another team.
GateStandingsRows ==
  { StandingRow(<< "A", "b" >>, << "1" >>, << "2" >>, T1),
    Padded(StandingRow(<< "A", "b" >>, << "1" >>, << "2" >>, T2), "team"),
    StandingRow(<< "A", "b" >>, << "2" >>, << "4" >>, T1),
    StandingRow(<< "A", "B" >>, << "1" >>, << "0" >>, T1),
    StandingRow(<< "D" >>, << "1" >>, << "0" >>, T2) }

GateScope(schema) ==
  IF schema = "games" THEN DEFAULT_MONTHS[1] ELSE STANDINGS_NAME

InitGate ==
  /\ \E schema \in { "games", "standings" } :
       LET rows == IF schema = "games" THEN GateGameRows ELSE GateStandingsRows
       IN  \E c \in SeqUpTo(rows, MaxGateRows) :
             \/ \E b \in SeqUpTo(rows, MaxGateRows) :
                  arg = [ schema |-> schema,
                          dir |-> Write(Write(<< >>, TMP(GateScope(schema)), c),
                                        OUT(GateScope(schema)), b) ]
             \/ arg = [ schema |-> schema,
                        dir |-> Write(<< >>, TMP(GateScope(schema)), c) ]
  /\ res = << >>
  /\ fn = ""
  /\ PipeAtRest
  /\ PageAtRest

ApplyGate ==
  /\ fn = ""
  /\ res' = [ gate |-> GateReport(arg.dir, GateScope(arg.schema), arg.schema),
              dir  |-> Gate(arg.dir, GateScope(arg.schema), arg.schema) ]
  /\ fn' = "Gate"
  /\ UNCHANGED arg
  /\ UNCHANGED << pipeVars, pageVars >>

NextGate == ApplyGate

SpecGate == InitGate /\ [][NextGate]_vars

(***************************************************************************)
(* csv_to_json applied to a data/combined.csv, present or not.             *)
(***************************************************************************)
\* Lines of a combined.csv: two records, a line one field short, a line one
\* field long, and an empty line.
CsvLines ==
  LET unplayed == CsvOf(Combine(<< Row(G1, NoScores, T1, Dec03, << "7", "P" >>) >>,
                                DefaultSeasonStartYear)).lines[1]
      played   == CsvOf(Combine(<< Row(NoUrl, Final32, T2, Xyz01, << "9", "A" >>) >>,
                                DefaultSeasonStartYear)).lines[1]
  IN  { unplayed, played, SubSeq(unplayed, 1, Len(unplayed) - 1),
        played \o << << "X" >> >>, << << >> >> }

InitConvert ==
  /\ \E old \in { NoFile, LastKnownGood } :
       \/ \E lines \in SeqUpTo(CsvLines, MaxLines) :
            arg = [ exists |-> TRUE,
                    csv |-> [ header |-> COMBINED_HEADER, lines |-> lines ],
                    old |-> old ]
       \/ arg = [ exists |-> FALSE,
                  csv |-> [ header |-> << >>, lines |-> << >> ],
                  old |-> old ]
  /\ res = << >>
  /\ fn = ""
  /\ PipeAtRest
  /\ PageAtRest

ApplyConvert ==
  /\ fn = ""
  /\ res' = csv_to_json(arg.exists, arg.csv, arg.old)
  /\ fn' = "csv_to_json"
  /\ UNCHANGED arg
  /\ UNCHANGED << pipeVars, pageVars >>

NextConvert == ApplyConvert

SpecConvert == InitConvert /\ [][NextConvert]_vars

(***************************************************************************)
(* The standings page given the rows of the standings extract.             *)
(***************************************************************************)
Teams == { << "A" >>, << "B" >>, << "D" >> }

\* A row of the standings extract with its points, win percentage (in
\* thousandths) and goal differential.
TableRow(team, pts, w_pct, diff) ==
  [ StandingRow(team, << "9" >>, pts, T1) EXCEPT !.w_pct = w_pct, !.diff = diff ]

TableRows ==
  { TableRow(team, pts, w_pct, diff) :
      team \in Teams,
      pts \in { << "4" >>, << "1", "0" >> },
      w_pct \in { << "5", "0", "0" >>, << "6", "0", "0" >> },
      diff \in { << "-", "1" >>, << "2" >> } }

\* team is unique within one standings extract.
InitStandings ==
  /\ arg \in { rows \in SeqUpTo(TableRows, MaxTeams) :
                 \A i, j \in 1..Len(rows) : rows[i].team = rows[j].team => i = j }
  /\ res = << >>
  /\ fn = ""
  /\ PipeAtRest
  /\ PageAtRest

ApplyStandings ==
  /\ fn = ""
  /\ res' = SortableStandingsTable(loadStandings(arg))
  /\ fn' = "SortableStandingsTable"
  /\ UNCHANGED arg
  /\ UNCHANGED << pipeVars, pageVars >>

NextStandings == ApplyStandings

SpecStandings == InitStandings /\ [][NextStandings]_vars

(***************************************************************************)
(* GET /api/games applied to search parameters and a stored dataset.       *)
(***************************************************************************)
InitApi ==
  /\ arg \in [ team : { << >>, << " " >>, << "a", "b" >>, << " ", "B" >>,
                        << "d" >>, << "z" >> },
               all : { << >>, << "1" >>, << " ", "1" >>, << "0" >> },
               games : SeqUpTo([ away : { << "A", "b" >>, << "B", "D" >> },
                                 home : { << "A", "B" >>, << "D" >> },
                                 game_date_iso :
                                   { << >>,
                                     << "2", "0", "2", "5", "-", "1", "2", "-", "0", "3" >>,
                                     << "2", "0", "2", "6", "-", "0", "1", "-", "1", "5" >> } ],
                               MaxGames) ]
  /\ res = << >>
  /\ fn = ""
  /\ PipeAtRest
  /\ PageAtRest

ApplyApi ==
  /\ fn = ""
  /\ res' = GET(arg.team, arg.all, arg.games)
  /\ fn' = "GET"
  /\ UNCHANGED arg
  /\ UNCHANGED << pipeVars, pageVars >>

NextApi == ApplyApi

SpecApi == InitApi /\ [][NextApi]_vars

(***************************************************************************)
(* The Game Scores page in a browser: the user's events, the timeout of    *)
(* the debounced search and the responses of the API, each followed by     *)
(* the renders and effects it causes.                                      *)
(***************************************************************************)
MaxInFlight == 2

\* /api/teams
TeamList == << << "A", "b" >>, << "B", "d" >>, << "D", "d" >> >>

PageGame(away, home, scores, iso) ==
  [ away |-> away, home |-> home, away_score |-> scores[1],
    home_score |-> scores[2], game_date_iso |-> iso ]

\* data/games.json: a played game, games on 2025-12-01, 2025-12-15,
\* 2026-03-14 and 2026-03-15 that are not played, and one without a date.
Dataset ==
  << PageGame(TeamList[1], TeamList[2], Final32,
              << "2", "0", "2", "5", "-", "1", "1", "-", "3", "0" >>),
     PageGame(TeamList[2], TeamList[1], NoScores,
              << "2", "0", "2", "5", "-", "1", "2", "-", "0", "1" >>),
     PageGame(TeamList[1], TeamList[3], NoScores,
              << "2", "0", "2", "5", "-", "1", "2", "-", "1", "5" >>),
     PageGame(TeamList[3], TeamList[2], NoScores,
              << "2", "0", "2", "6", "-", "0", "3", "-", "1", "4" >>),
     PageGame(TeamList[3], TeamList[1], << << "1" >>, << >> >>,
              << "2", "0", "2", "6", "-", "0", "3", "-", "1", "5" >>),
     PageGame(TeamList[2], TeamList[3], NoScores, << >>) >>

\* What the user types into the search box.
Queries == { << >>, << " " >>, << "a", "b" >>, << "B", "d" >>, << "z" >> }

\* The component before its first render: the useState and useRef defaults.
Unmounted ==
  [ teams |-> << >>, loadingTeams |-> TRUE, query |-> << >>,
    openSuggest |-> FALSE, activeIndex |-> -1, allGames |-> << >>,
    allPending |-> TRUE, games |-> << >>, loadingGames |-> FALSE,
    view |-> "upcoming", lastSearchedRef |-> << >>, fetches |-> << >>,
    timer |-> << >> ]

\* The page has been opened, with or without ?team=, on 2025-12-01 or on
\* 2026-03-01, and its first render and effects are done.
InitPage ==
  /\ FunAtRest
  /\ PipeAtRest
  /\ env \in [ teamParam : { << >>, << "A", "b" >> },
               today : { LocalDay(2025, 11, 1), LocalDay(2026, 2, 1) },
               zone : { "UTC", "America/Toronto" } ]
  /\ page = Settle(Unmounted, Unmounted, TRUE, env.teamParam)
  /\ userCleared = FALSE

\* The state cur set by a handler is rendered and the effects run.
Step(cur, emptied) ==
  /\ page' = Settle(page, cur, FALSE, env.teamParam)
  /\ Len(page'.fetches) <= MaxInFlight
  /\ userCleared' = emptied
  /\ UNCHANGED << env, funVars, pipeVars >>

\* useEffect "Load teams": the response of /api/teams
TeamsLoaded ==
  /\ page.loadingTeams
  /\ Step([ page EXCEPT !.teams = TeamList, !.loadingTeams = FALSE ], userCleared)

\* useEffect "Load ALL games on first visit": the response of /api/games?all=1
AllGamesLoaded ==
  /\ page.allPending
  /\ Step([ page EXCEPT !.allGames = GET(<< >>, << "1" >>, Dataset),
                        !.allPending = FALSE ], userCleared)

\* Input onFocus
onFocus ==
  /\ ~page.loadingTeams
  /\ Step([ page EXCEPT !.openSuggest = TRUE ], userCleared)

\* Input onChange
onChange(value) ==
  /\ ~page.loadingTeams
  /\ value # page.query
  /\ Step([ page EXCEPT !.query = value, !.openSuggest = TRUE ], value = << >>)

\* Input onKeyDown
onKeyDown(pressed) ==
  /\ ~page.loadingTeams
  /\ LET list == suggestions(page)
         i == page.activeIndex
         picks == page.openSuggest /\ i >= 0 /\ i < Len(list)
     IN  Step(CASE pressed = "Escape" ->
                     [ page EXCEPT !.openSuggest = FALSE, !.activeIndex = -1 ]
                [] pressed = "ArrowDown" ->
                     [ page EXCEPT !.activeIndex =
                         IF i + 1 < Len(list) - 1 THEN i + 1 ELSE Len(list) - 1 ]
                [] pressed = "ArrowUp" ->
                     [ page EXCEPT !.activeIndex = IF i - 1 > 0 THEN i - 1 ELSE 0 ]
                [] pressed = "Enter" ->
                     IF picks THEN chooseTeam(page, list[i + 1])
                     ELSE search([ page EXCEPT !.lastSearchedRef = << >> ], page.query),
              IF pressed = "Enter" /\ picks THEN FALSE ELSE userCleared)

\* CommandItem onMouseEnter
onMouseEnter(idx) ==
  /\ page.openSuggest /\ ~page.loadingTeams
  /\ idx < Len(suggestions(page))
  /\ Step([ page EXCEPT !.activeIndex = idx ], userCleared)

\* CommandItem onSelect
onSelect(t) ==
  /\ page.openSuggest /\ ~page.loadingTeams
  /\ t \in Range(suggestions(page))
  /\ Step(chooseTeam(page, t), FALSE)

\* TeamLabelMobile onClick, on a team of a game that is shown
onClick(name) ==
  /\ LET shown == IF page.view = "played" THEN playedGames(page)
                  ELSE IF page.view = "upcoming"
                  THEN upcomingGames(page, env.today, env.zone)
                  ELSE baseGames(page)
     IN  \E g \in Range(shown) : name \in { g.away, g.home }
  /\ Step(chooseTeam(page, name), FALSE)

\* The Search button
SearchButton ==
  /\ Trim(page.query) # << >> /\ ~page.loadingGames
  /\ Step(search([ page EXCEPT !.lastSearchedRef = << >> ], page.query), userCleared)

\* The Clear button
ClearButton ==
  /\ ~page.loadingGames
  /\ Step([ page EXCEPT !.query = << >>, !.openSuggest = FALSE,
                        !.activeIndex = -1 ], page.query # << >> \/ userCleared)

\* "Close dropdown on outside click"
onDown ==
  Step([ page EXCEPT !.openSuggest = FALSE, !.activeIndex = -1 ], userCleared)

\* Tabs onValueChange
onValueChange(value) ==
  /\ value # page.view
  /\ Step([ page EXCEPT !.view = value ], FALSE)

\* The timeout of the debounced auto-search fires: search(q)
TimeoutFires ==
  /\ page.timer # << >>
  /\ Step(search([ page EXCEPT !.timer = << >> ], page.timer[1]), userCleared)

\* The response of one of the requests in flight arrives: setGames, then
\* setLoadingGames(false).
FetchReturns(i) ==
  /\ i \in 1..Len(page.fetches)
  /\ Step([ page EXCEPT !.games = GET(page.fetches[i], << >>, Dataset),
                        !.loadingGames = FALSE,
                        !.fetches = [ j \in 1..(Len(@) - 1) |->
                                        IF j < i THEN @[j] ELSE @[j + 1] ] ],
          userCleared)

NextPage ==
  \/ TeamsLoaded
  \/ AllGamesLoaded
  \/ onFocus
  \/ \E value \in Queries : onChange(value)
  \/ \E pressed \in { "Escape", "ArrowDown", "ArrowUp", "Enter" } : onKeyDown(pressed)
  \/ \E idx \in 0..(Len(TeamList) - 1) : onMouseEnter(idx)
  \/ \E t \in Range(TeamList) : onSelect(t)
  \/ \E name \in Range(TeamList) : onClick(name)
  \/ SearchButton
  \/ ClearButton
  \/ onDown
  \/ \E value \in { "upcoming", "played", "all" } : onValueChange(value)
  \/ TimeoutFires
  \/ \E i \in 1..MaxInFlight : FetchReturns(i)

SpecPage == InitPage /\ [][NextPage]_vars

(***************************************************************************)
(* Properties of sortGamesAsc.                                             *)
(***************************************************************************)
HasDate(g) == Trim(Get(g, "game_date_iso")) # << >>

Count(s, x) == Cardinality({ i \in 1..Len(s) : s[i] = x })

SameElements(s, t) ==
  /\ Len(s) = Len(t)
  /\ \A i \in 1..Len(s) : Count(s, s[i]) = Count(t, s[i])

\* C8: in the output of sortGamesAsc, which holds exactly the games of the
\* input, every game without a game_date_iso comes after every game that
\* has one.
C8_MissingDatesLast ==
  fn = "sortGamesAsc" =>
    /\ SameElements(arg, res)
    /\ \A i, j \in 1..Len(res) :
         (i < j /\ HasDate(res[j])) => HasDate(res[i])

C8_Witness ==
  /\ fn = "sortGamesAsc"
  /\ Len(arg) = 3
  /\ ~HasDate(arg[1]) /\ HasDate(arg[2]) /\ ~HasDate(arg[3])
  /\ HasDate(res[1]) /\ ~HasDate(res[2]) /\ ~HasDate(res[3])

\* C9: the output of sortGamesAsc is ascending by game_date_iso, and two
\* games with the same game_date_iso, two games without one included, are in
\* ascending order of their time.
C9_DateThenTimeOrder ==
  fn = "sortGamesAsc" =>
    \A i, j \in 1..Len(res) :
      i < j =>
        LET di == Trim(Get(res[i], "game_date_iso"))
            dj == Trim(Get(res[j], "game_date_iso"))
            ti == Trim(Get(res[i], "time"))
            tj == Trim(Get(res[j], "time"))
        IN  /\ (di # << >> /\ dj # << >>) => localeCompare(di, dj) <= 0
            /\ di = dj => localeCompare(ti, tj) <= 0

(***************************************************************************)
(* Properties of the Season-Year Resolver.                                 *)
(***************************************************************************)
OctNovDec == { << "O", "c", "t" >>, << "N", "o", "v" >>, << "D", "e", "c" >> }

IsoYear(iso) ==
  1000 * DigitVal(iso[1]) + 100 * DigitVal(iso[2])
    + 10 * DigitVal(iso[3]) + DigitVal(iso[4])

MonthOf(date_text) == SubSeq(date_text, 1, 3)

DayOf(date_text) == FirstToken(SubSeq(date_text, 5, Len(date_text)))

\* C7: a display date with a month name and a day that exists in every
\* year resolves to an ISO date; the year of a resolved date is
\* season_start_year for October, November and December and
\* season_start_year + 1 for every earlier month.
C7_SeasonYearResolution ==
  fn = "ResolveDate" =>
    /\ ( /\ MonthOf(arg.date_text) \in { MonthNames[m] : m \in 1..12 }
         /\ DayOf(arg.date_text) \in { << "0", "3" >>, << "1", "5" >>, << "7" >> } )
       => res # << >>
    /\ res # << >> =>
         /\ Len(res) = 10
         /\ IsoYear(res) =
              IF MonthOf(arg.date_text) \in OctNovDec
              THEN arg.season_start_year
              ELSE arg.season_start_year + 1

C7_Witness ==
  /\ fn = "ResolveDate"
  /\ arg.date_text = << "J", "a", "n", " ", "1", "5", " ", "(", "W", "e", "d", ")" >>
  /\ arg.season_start_year = 2025
  /\ res = << "2", "0", "2", "6", "-", "0", "1", "-", "1", "5" >>

(***************************************************************************)
(* Properties of the Deduplicator and of the combine.                      *)
(***************************************************************************)
\* Two parsed records are the same logical game.
SameGame(a, b) ==
  IF a.game_url # << >> \/ b.game_url # << >>
  THEN a.game_url = b.game_url
  ELSE /\ a.date_text = b.date_text /\ a.time = b.time
       /\ a.away = b.away /\ a.home = b.home
       /\ a.game_code = b.game_code /\ a.venue = b.venue

BlankScores(r) == r.away_score = << >> /\ r.home_score = << >>

PopulatedScores(r) == r.away_score # << >> /\ r.home_score # << >>

Loaded(rows) == ResolveAll(LoadRows(rows), DefaultSeasonStartYear)

\* out holds exactly one record for the game of r, with populated scores
\* taken from a record of that game in inp.
MergedWithScores(inp, out, r) ==
  /\ Cardinality({ k \in 1..Len(out) : SameGame(out[k], r) }) = 1
  /\ \A k \in 1..Len(out) :
       SameGame(out[k], r) =>
         /\ PopulatedScores(out[k])
         /\ \E i \in 1..Len(inp) :
              /\ SameGame(inp[i], r) /\ PopulatedScores(inp[i])
              /\ inp[i].away_score = out[k].away_score
              /\ inp[i].home_score = out[k].home_score

\* C1: when the input holds two records with the same non-blank game_url,
\* one with blank scores and one with populated scores, the output holds one
\* record for that game and it carries populated scores, in either input
\* order and whichever of the two was scraped first.
C1_CompletenessPreservingMerge ==
  fn = "Combine" =>
    LET inp == Loaded(arg.rows)
    IN  \A i, j \in 1..Len(inp) :
          ( /\ inp[i].game_url # << >>
            /\ inp[i].game_url = inp[j].game_url
            /\ BlankScores(inp[i]) /\ PopulatedScores(inp[j]) )
          => /\ MergedWithScores(inp, res.out, inp[j])
             /\ MergedWithScores(inp, res.outPerm, inp[j])

\* The populated record was scraped first and comes first; the blank one is
\* later on both counts, and the permuted input has them the other way round.
C1_Witness ==
  /\ fn = "Combine"
  /\ Len(arg.rows) = 2
  /\ arg.perm = << 2, 1 >>
  /\ arg.rows[1].game_url = G1
  /\ arg.rows[2].game_url = G1
  /\ PopulatedScores(arg.rows[1]) /\ arg.rows[1].scraped_at = << "1" >>
  /\ BlankScores(arg.rows[2]) /\ arg.rows[2].scraped_at = << "2" >>
  /\ Len(res.out) = 1 /\ Len(res.outPerm) = 1
  /\ res.out[1].away_score = << "3" >> /\ res.out[1].home_score = << "2" >>
  /\ res.outPerm[1].away_score = << "3" >> /\ res.outPerm[1].home_score = << "2" >>

SortKeys(s) == [ i \in 1..Len(s) |-> << s[i].game_date_iso, s[i].time >> ]

\* Duplicates that are equally complete and carry the same scraped_at are
\* the same record.
TiedDuplicatesAgree(inp) ==
  \A i, j \in 1..Len(inp) :
    ( /\ SameGame(inp[i], inp[j])
      /\ PopulatedScores(inp[i]) = PopulatedScores(inp[j])
      /\ inp[i].scraped_at = inp[j].scraped_at )
    => inp[i] = inp[j]

C3_OneRecordPerGame ==
  fn = "Combine" =>
    LET inp == Loaded(arg.rows)
        out == res.out
    IN  /\ \A i, j \in 1..Len(out) : SameGame(out[i], out[j]) => i = j
        /\ \A i \in 1..Len(inp) : \E k \in 1..Len(out) : SameGame(inp[i], out[k])
        /\ \A k \in 1..Len(out) : \E i \in 1..Len(inp) : out[k] = inp[i]

\* Three records: two share a game_url, the third has a blank game_url and
\* the first one's fallback tuple.
C3_Witness ==
  /\ fn = "Combine"
  /\ Len(arg.rows) = 3
  /\ Loaded(arg.rows)[1].game_url # << >>
  /\ Loaded(arg.rows)[2].game_url = Loaded(arg.rows)[1].game_url
  /\ Loaded(arg.rows)[2].date_text # Loaded(arg.rows)[1].date_text
  /\ Loaded(arg.rows)[3].game_url = << >>
  /\ Loaded(arg.rows)[3].date_text = Loaded(arg.rows)[1].date_text
  /\ Loaded(arg.rows)[3].time = Loaded(arg.rows)[1].time
  /\ Len(res.out) = 2

(***************************************************************************)
(* Properties of the Change-Detection Gate.                                *)
(***************************************************************************)
GateActed == lastGate.report # ""

\* The stored extract of the scope the last gate decided on.
StoredNow ==
  IF OUT(lastGate.scope) \in DOMAIN exports
  THEN File(exports[OUT(lastGate.scope)]) ELSE NoFile

StoredBefore ==
  IF lastGate.hasBaseline THEN File(lastGate.baseline) ELSE NoFile

\* Two extracts with the same rows in the same order, scraped_at apart.
DiffersOnlyInScrapedAt(a, b) ==
  /\ Len(a) = Len(b)
  /\ \A i \in 1..Len(a) :
       /\ DOMAIN a[i] = DOMAIN b[i]
       /\ \A k \in DOMAIN a[i] : k # "scraped_at" => a[i][k] = b[i][k]

\* C4: when the candidate differs from the stored baseline only in
\* scraped_at values, the gate reports no change, the stored baseline is
\* retained and the candidate file is gone.
C4_GateStability ==
  ( /\ GateActed
    /\ lastGate.hasBaseline
    /\ DiffersOnlyInScrapedAt(lastGate.candidate, lastGate.baseline) )
  => /\ lastGate.report = "No changes"
     /\ StoredNow = File(lastGate.baseline)
     /\ TMP(lastGate.scope) \notin DOMAIN exports

\* A month re-scraped in a later run with the same game, stamped anew.
C4_Witness ==
  /\ GateActed
  /\ lastGate.scope \in Range(DEFAULT_MONTHS)
  /\ lastGate.hasBaseline
  /\ Len(lastGate.candidate) = 1
  /\ DiffersOnlyInScrapedAt(lastGate.candidate, lastGate.baseline)
  /\ lastGate.candidate[1].scraped_at = Stamp(2)
  /\ lastGate.baseline[1].scraped_at = Stamp(1)
  /\ exports[OUT(lastGate.scope)][1].scraped_at = Stamp(1)

GateSchema == IF lastGate.scope = STANDINGS_NAME THEN "standings" ELSE "games"

\* The normalized file of an extract; for a missing extract, the header-only
\* file that stands in for it.
NormalizedFile(f, schema) ==
  IF f.exists THEN NormFile(f.rows, schema) ELSE EmptyBaseline

\* C5: after a gate, if the normalized candidate equals the normalized
\* baseline the stored extract is exactly as it was before (missing if it was
\* missing, with its scraped_at values); otherwise the stored extract is
\* exactly the candidate.
C5_GateDecisionRule ==
  GateActed =>
    IF NormalizedFile(File(lastGate.candidate), GateSchema)
         = NormalizedFile(StoredBefore, GateSchema)
    THEN StoredNow = StoredBefore
    ELSE StoredNow = File(lastGate.candidate)

\* A played game replaces the stored unplayed one.
C5_Witness ==
  /\ GateActed
  /\ lastGate.scope \in Range(DEFAULT_MONTHS)
  /\ lastGate.hasBaseline
  /\ Len(lastGate.baseline) = 1 /\ Len(lastGate.candidate) = 1
  /\ Get(lastGate.baseline[1], "away_score") = << >>
  /\ Get(lastGate.baseline[1], "game_url") = G1
  /\ Get(lastGate.candidate[1], "away_score") # << >>
  /\ Get(lastGate.candidate[1], "home_score") # << >>
  /\ lastGate.report = "Changes detected"
  /\ exports[OUT(lastGate.scope)] = lastGate.candidate

(***************************************************************************)
(* Properties of the combine step.                                         *)
(***************************************************************************)
Started(program) == program \in Range(steps)

\* The run reached the combine step with no *.csv in exports/ and ended.
EndedAtCombineWithoutExtracts ==
  /\ pc = "exited"
  /\ CsvScopes = { }
  /\ \/ message = "No CSV files found"
     \/ steps # << >> /\ steps[Len(steps)] = "combine_dedupe"

DataUnchanged ==
  /\ combined = atStart.combined
  /\ gamesJson = atStart.gamesJson

StoredRecords ==
  { ParseRow(r) :
      r \in { x \in UNION { Range(exports[f]) :
                               f \in { n \in DOMAIN exports : n[2] = "csv" } } :
                ~IsMalformed(x) } }

\* The games a set of records shows with populated scores.
GamesWithScores(records) == { Identity(r) : r \in { x \in records : Played(x) } }

ScoreFields == { "away_score", "home_score" }

\* The fields of a canonical record that are neither scores nor scraped_at.
StableFields == CombinedFields \ (ScoreFields \cup { "scraped_at" })

\* later is the record earlier with nothing changed but, possibly, a blank
\* score that is now populated; scraped_at is compared only when asked.
SameButScores(earlier, later, fields) ==
  /\ Identity(later) = Identity(earlier)
  /\ \A k \in fields : later[k] = earlier[k]
  /\ \A k \in ScoreFields : earlier[k] = << >> \/ later[k] = earlier[k]

StillListed(r, stored) ==
  LET same == { x \in stored : Identity(x) = Identity(r) }
  IN  /\ same # { }
      /\ \A x \in same :
           /\ \A k \in StableFields \ { "game_date_iso" } : x[k] = r[k]
           /\ \A k \in ScoreFields :
                r[k] # << >> => (x[k] = r[k] \/ (~Played(x) /\ Played(r)))
      /\ Played(r) => \E x \in same : Played(x)

Trimmed(r, fields) == [ k \in fields \ { "scraped_at" } |-> Trim(Get(r, k)) ]

\* The two extracts hold the same multiset of trimmed rows.
SameRows(a, b, fields) ==
  /\ Len(a) = Len(b)
  /\ \A i \in 1..Len(a) :
       Cardinality({ j \in 1..Len(a) : Trimmed(a[j], fields) = Trimmed(a[i], fields) })
         = Cardinality({ j \in 1..Len(b) : Trimmed(b[j], fields) = Trimmed(a[i], fields) })

GateCandidate == arg.dir[TMP(GateScope(arg.schema))]

GateHasBaseline == OUT(GateScope(arg.schema)) \in DOMAIN arg.dir

GateBaseline == arg.dir[OUT(GateScope(arg.schema))]

\* C13: a month candidate and a baseline that hold the same multiset of rows
\* once every field is trimmed and scraped_at is blanked, in whatever row
\* order, are reported as no change.
C13_GameGateIgnoresOrderAndWhitespace ==
  ( /\ fn = "Gate" /\ arg.schema = "games" /\ GateHasBaseline
    /\ SameRows(GateCandidate, GateBaseline, GameFields) )
  => res.gate.report = "No changes"

\* Three rows in another order, one of them padded and stamped later.
C13_Witness ==
  /\ fn = "Gate" /\ arg.schema = "games" /\ GateHasBaseline
  /\ Len(GateCandidate) = 3
  /\ SameRows(GateCandidate, GateBaseline, GameFields)
  /\ Trimmed(GateCandidate[1], GameFields) # Trimmed(GateBaseline[1], GameFields)
  /\ \E i \in 1..3 : GateCandidate[i] \notin Range(GateBaseline)
  /\ res.gate.report = "No changes"

\* C14: a standings candidate and a baseline that hold the same multiset of
\* rows once trimmed and with scraped_at blanked, in whatever row order, are
\* reported as no change, and the baseline is kept.
C14_StandingsGateIgnoresOrder ==
  ( /\ fn = "Gate" /\ arg.schema = "standings" /\ GateHasBaseline
    /\ SameRows(GateCandidate, GateBaseline, StandingsFields) )
  => /\ res.gate.report = "No changes"
     /\ res.dir = (OUT(STANDINGS_NAME) :> GateBaseline)

\* Rows of the extract that agree on team (letter case apart), gp and w
\* agree on every field.
TeamGamesWinsDecideRow(rows) ==
  \A i, j \in 1..Len(rows) :
    ( /\ Lower(Trim(Get(rows[i], "team"))) = Lower(Trim(Get(rows[j], "team")))
      /\ Trim(Get(rows[i], "gp")) = Trim(Get(rows[j], "gp"))
      /\ Trim(Get(rows[i], "w")) = Trim(Get(rows[j], "w")) )
    => Trimmed(rows[i], StandingsFields) = Trimmed(rows[j], StandingsFields)

\* C14 (amended): the same, for extracts in which rows that agree on team
\* (letter case apart), gp and w agree on every field.
C14_StandingsGateIgnoresOrderOfDistinctKeys ==
  ( /\ fn = "Gate" /\ arg.schema = "standings" /\ GateHasBaseline
    /\ SameRows(GateCandidate, GateBaseline, StandingsFields)
    /\ TeamGamesWinsDecideRow(GateCandidate) )
  => /\ res.gate.report = "No changes"
     /\ res.dir = (OUT(STANDINGS_NAME) :> GateBaseline)

\* Three teams in another order, one row padded and stamped later.
C14_Witness ==
  /\ fn = "Gate" /\ arg.schema = "standings" /\ GateHasBaseline
  /\ Len(GateCandidate) = 3
  /\ SameRows(GateCandidate, GateBaseline, StandingsFields)
  /\ TeamGamesWinsDecideRow(GateCandidate)
  /\ Trimmed(GateCandidate[1], StandingsFields) # Trimmed(GateBaseline[1], StandingsFields)
  /\ \E i \in 1..3 : GateCandidate[i] \notin Range(GateBaseline)
  /\ res.gate.report = "No changes"
  /\ res.dir[OUT(STANDINGS_NAME)] = GateBaseline
  /\ TMP(STANDINGS_NAME) \notin DOMAIN res.dir

(***************************************************************************)
(* Properties of the merge policy and of unresolvable dates.               *)
(***************************************************************************)
\* No record of inp that is the game of kept and as complete as kept was
\* scraped later than kept.
LatestOfItsCompleteness(inp, kept) ==
  \A i \in 1..Len(inp) :
    (SameGame(inp[i], kept) /\ Played(inp[i]) = Played(kept))
      => localeCompare(inp[i].scraped_at, kept.scraped_at) <= 0

\* C15: of duplicate records that are equally complete, the one kept is the
\* one with the later scraped_at, in either input order.
C15_TieBreakLaterScrape ==
  fn = "Combine" =>
    /\ \A k \in 1..Len(res.out) :
         LatestOfItsCompleteness(Loaded(arg.rows), res.out[k])
    /\ \A k \in 1..Len(res.outPerm) :
         LatestOfItsCompleteness(Loaded(arg.rows), res.outPerm[k])

\* Two played records of one game, the later scrape read first.
C15_Witness ==
  /\ fn = "Combine"
  /\ Len(arg.rows) = 2
  /\ arg.perm = << 2, 1 >>
  /\ arg.rows[1].game_url = G1 /\ arg.rows[2].game_url = G1
  /\ Played(arg.rows[1]) /\ Played(arg.rows[2])
  /\ arg.rows[1].scraped_at = T2 /\ arg.rows[2].scraped_at = T1
  /\ Len(res.out) = 1 /\ res.out[1].scraped_at = T2
  /\ Len(res.outPerm) = 1 /\ res.outPerm[1].scraped_at = T2

\* Display dates the resolver cannot resolve: a month that is no month name,
\* and a day that is out of range.
UnresolvableDates == { Xyz01, Feb30 }

Resolvable(r) == r.date_text \notin UnresolvableDates

\* C16: the combine of an input with unresolvable dates yields an output:
\* every such record is kept with its original date_text and an absent
\* game_date_iso, the other records are the combine of the input without
\* them, and csv_to_json accepts the output.
C16_UnresolvableDateKept ==
  fn = "Combine" =>
    LET inp == LoadRows(arg.rows)
    IN  /\ \A i \in 1..Len(inp) :
             ~Resolvable(inp[i]) =>
               \E k \in 1..Len(res.out) :
                 /\ SameGame(res.out[k], inp[i])
                 /\ res.out[k].date_text = inp[i].date_text
                 /\ res.out[k].game_date_iso = << >>
        /\ SelectSeq(res.out, Resolvable)
             = Combine(SelectSeq(arg.rows, Resolvable), DefaultSeasonStartYear)
        /\ csv_to_json(TRUE, CsvOf(res.out), NoFile)
             = [ status |-> 0, json |-> File(res.out) ]

\* A dated game between a record with a day out of range and a record with
\* an unparseable month: the dated game comes first, the other two follow.
C16_Witness ==
  /\ fn = "Combine"
  /\ Len(arg.rows) = 3
  /\ arg.rows[1].date_text = Feb30
  /\ arg.rows[2].date_text = Dec03
  /\ arg.rows[3].date_text = Xyz01
  /\ Len(res.out) = 3
  /\ res.out[1].game_date_iso = << "2", "0", "2", "5", "-", "1", "2", "-", "0", "3" >>
  /\ res.out[2].date_text = Feb30 /\ res.out[2].game_date_iso = << >>
  /\ res.out[3].date_text = Xyz01 /\ res.out[3].game_date_iso = << >>

(***************************************************************************)
(* Properties of a whole run.                                              *)
(***************************************************************************)
\* Every row of every stored *.csv, malformed ones included.
StoredRows ==
  UNION { Range(exports[f]) : f \in { n \in DOMAIN exports : n[2] = "csv" } }

\* The game of every well-formed stored row is in the dataset, and the
\* dataset holds complete records only.
HoldsEveryStoredGame(dataset) ==
  /\ \A r \in StoredRecords :
       \E x \in Range(dataset.rows) : DOMAIN x = CombinedFields /\ Identity(x) = Identity(r)
  /\ \A x \in Range(dataset.rows) : DOMAIN x = CombinedFields

\* C17: a malformed row in a stored extract fails neither the combine nor the
\* convert step, and when the run is done combined.csv and games.json hold
\* the game of every well-formed row of every extract and no malformed one.
C17_MalformedRowSkipped ==
  (\E r \in StoredRows : IsMalformed(r) /\ DOMAIN r # StandingsFields) =>
    /\ (pc = "exited" /\ Started("combine_dedupe")) => CsvScopes = { }
    /\ pc \in { "convert", "done" } => HoldsEveryStoredGame(combined)
    /\ pc = "done" =>
         /\ exitStatus = 0
         /\ HoldsEveryStoredGame(gamesJson)

\* One month's extract is a line cut short, the other month's is a game:
\* the run is done and both outputs hold that game and nothing else.
C17_Witness ==
  /\ pc = "done"
  /\ \E m1, m2 \in Range(DEFAULT_MONTHS) :
       /\ OUT(m1) \in DOMAIN exports /\ OUT(m2) \in DOMAIN exports
       /\ Len(exports[OUT(m1)]) = 1 /\ IsMalformed(exports[OUT(m1)][1])
       /\ Len(exports[OUT(m2)]) = 1 /\ ~IsMalformed(exports[OUT(m2)][1])
  /\ Len(combined.rows) = 1
  /\ combined.rows[1].game_url = G1
  /\ gamesJson.rows = combined.rows

(***************************************************************************)
(* Properties of csv_to_json.                                              *)
(***************************************************************************)
\* The records of a CSV file: its lines, empty ones apart.
CsvRecords(csv) == SelectSeq(csv.lines, LAMBDA l : l # << << >> >>)

\* A record with more or fewer fields than the header has columns.
Misshapen(csv) ==
  \E i \in 1..Len(CsvRecords(csv)) : Len(CsvRecords(csv)[i]) # Len(csv.header)

\* json holds one entry per record, in order, each with the header's names
\* and the record's values.
Mirrors(json, csv) ==
  /\ json.exists
  /\ Len(json.rows) = Len(CsvRecords(csv))
  /\ \A i \in 1..Len(json.rows) :
       /\ DOMAIN json.rows[i] = Range(csv.header)
       /\ \A j \in 1..Len(csv.header) :
            json.rows[i][csv.header[j]] = CsvRecords(csv)[i][j]

\* C18: csv_to_json on a combined.csv whose records all have the header's
\* number of fields exits 0 and leaves a games.json that mirrors it; on a
\* file with a misshapen record, or on a missing file, it exits non-zero and
\* games.json is as it was.
C18_JsonMirrorsCsv ==
  fn = "csv_to_json" =>
    IF arg.exists /\ ~Misshapen(arg.csv)
    THEN res.status = 0 /\ Mirrors(res.json, arg.csv)
    ELSE res.status # 0 /\ res.json = arg.old

\* Two records with an empty line between them replace the earlier
\* games.json by two entries.
C18_Witness ==
  /\ fn = "csv_to_json"
  /\ arg.exists
  /\ Len(arg.csv.lines) = 3
  /\ arg.csv.lines[2] = << << >> >>
  /\ arg.csv.lines[1] # arg.csv.lines[3]
  /\ arg.old = LastKnownGood
  /\ res.status = 0
  /\ Len(res.json.rows) = 2
  /\ res.json.rows[1].game_url = G1
  /\ res.json.rows[2].game_date_iso = << >>
  /\ res.json.rows[2].away_score = << "3" >>

\* A record that is one field short: exit 1, games.json untouched.
C18_WitnessParseError ==
  /\ fn = "csv_to_json"
  /\ arg.exists
  /\ Len(arg.csv.lines) = 2
  /\ Len(arg.csv.lines[1]) = Len(COMBINED_HEADER)
  /\ Len(arg.csv.lines[2]) = Len(COMBINED_HEADER) - 1
  /\ arg.old = LastKnownGood
  /\ res.status = 1
  /\ res.json = LastKnownGood

\* The steps of a complete run, in order: per month the scrape and, in the
\* update-if-changed script, its gate; there also the standings scrape and
\* its gate; then the combine; then the convert.
ExpectedSteps ==
  IF script = "gated"
  THEN [ i \in 1..(2 * Len(MONTHS)) |->
           IF i % 2 = 1 THEN "month_to_scrape" ELSE "gate" ]
       \o << "standings_to_scrape", "gate", "combine_dedupe", "csv_to_json" >>
  ELSE [ i \in 1..Len(MONTHS) |-> "month_to_scrape" ]
       \o << "combine_dedupe", "csv_to_json" >>

IsPrefix(s, t) == Len(s) <= Len(t) /\ s = SubSeq(t, 1, Len(s))

\* The combine of this run wrote combined.csv from the stored extracts.
CombineSucceeded ==
  /\ Started("combine_dedupe")
  /\ CsvScopes # { }
  /\ combines # << >>
  /\ combined = File(combines[Len(combines)].output)
  /\ combined.rows = Combine(RowsOf(CSV_FILES), DefaultSeasonStartYear)

StepsInOrder ==
  /\ script # "" => IsPrefix(steps, ExpectedSteps)
  /\ pc = "done" => steps = ExpectedSteps /\ exitStatus = 0
  /\ pc = "exited" => exitStatus # 0
  /\ Started("csv_to_json") => CombineSucceeded
  /\ combined # atStart.combined => CombineSucceeded
  /\ gamesJson # atStart.gamesJson => pc = "done" /\ gamesJson.rows = combined.rows

\* C19: the steps a run has taken are the first steps of scrape (and gate)
\* per month, standings scrape and gate, combine, convert; a run that is
\* done took them all and its status is 0; a run that ended early has a
\* non-zero status and takes no further step; csv_to_json starts, and
\* games.json changes, only after the run's combine succeeded.
C19_StepOrderAndFailurePropagation ==
  /\ []StepsInOrder
  /\ [][ pc = "exited" => (now' = now + 1 /\ steps' = << >>) ]_vars

\* The second run of the update-if-changed script fails in the scrape of
\* its second month, after the first run had written both outputs: it ends
\* with status 1 before the combine, and both outputs are those of the first run.
C19_Witness ==
  /\ script = "gated"
  /\ now = 2
  /\ pc = "exited"
  /\ exitStatus = 1
  /\ steps = << "month_to_scrape", "gate", "month_to_scrape" >>
  /\ Len(combines) = 1
  /\ combined = File(combines[1].output)
  /\ gamesJson = combined
  /\ DataUnchanged

(***************************************************************************)
(* Properties of the standings table.                                      *)
(***************************************************************************)
\* The row of the extract that a displayed row was loaded from.
ExtractRowOf(shown) == CHOOSE r \in Range(arg) : Trim(r.team) = shown.team

\* a ranks at least as high as b: more points, or equal points and a higher
\* win percentage, or both equal and a goal differential at least as high.
RanksNoLower(a, b) ==
  LET pa == NumberOf(a.pts)    pb == NumberOf(b.pts)
      wa == NumberOf(a.w_pct)  wb == NumberOf(b.w_pct)
      da == NumberOf(a.diff)   db == NumberOf(b.diff)
  IN  \/ pa > pb
      \/ pa = pb /\ wa > wb
      \/ pa = pb /\ wa = wb /\ da >= db

\* C20: in the table as first displayed every row ranks at least as high
\* as the rows below it, by points, then win percentage, then goal
\* differential.
C20_SortedByPointsWinPctDiff ==
  fn = "SortableStandingsTable" =>
    \A i, j \in 1..Len(res) :
      i < j => RanksNoLower(ExtractRowOf(res[i]), ExtractRowOf(res[j]))

(***************************************************************************)
(* Properties of the combine inputs, the month arguments and the gate's    *)
(* files.                                                                  *)
(***************************************************************************)
\* C23: every file handed to the combine step is a per-month game extract;
\* the standings extract is never among them.
C23_OnlyGameExtractsCombined ==
  (pc = "combine" /\ ~NoCsvFiles) =>
    \A i \in 1..Len(CSV_FILES) :
      /\ CSV_FILES[i] # STANDINGS_NAME
      /\ IsYearMonth(CSV_FILES[i])

\* YYYY-MM with a month between 01 and 12.
WellFormedMonth(m) ==
  /\ Len(m) = 7
  /\ \A i \in { 1, 2, 3, 4, 6, 7 } : IsDigit(m[i])
  /\ m[5] = "-"
  /\ 10 * DigitVal(m[6]) + DigitVal(m[7]) \in 1..12

\* The stored extracts: the *.csv files of exports/.
StoredExtracts(dir) ==
  [ n \in { x \in DOMAIN dir : x[2] = "csv" } |-> dir[n] ]

RunHasBadMonth == \E i \in 1..Len(MONTHS) : ~WellFormedMonth(MONTHS[i])

\* C24: a run with a month argument that is not YYYY-MM with a month
\* between 01 and 12 ends with status 1, and no step of it creates or
\* replaces a stored extract.
C24_MonthValidationAllOrNothing ==
  /\ []((RunHasBadMonth /\ pc \in { "done", "exited" }) => exitStatus = 1)
  /\ [][ (RunHasBadMonth /\ MONTHS' = MONTHS /\ now' = now)
           => StoredExtracts(exports') = StoredExtracts(exports) ]_vars

\* C26: after a gate that found no stored baseline, a candidate with at
\* least one row is the stored extract, and a candidate with no rows is gone
\* and no stored extract exists for the scope.
C26_GateWithoutBaseline ==
  (GateActed /\ ~lastGate.hasBaseline) =>
    /\ TMP(lastGate.scope) \notin DOMAIN exports
    /\ IF lastGate.candidate = << >>
       THEN OUT(lastGate.scope) \notin DOMAIN exports
       ELSE /\ OUT(lastGate.scope) \in DOMAIN exports
            /\ exports[OUT(lastGate.scope)] = lastGate.candidate

\* The scope the gate at hand decides on.
ScopeAtGate == IF pc = "month_gate" THEN MONTHS[mi] ELSE STANDINGS_NAME

WorkingFiles(scope) == { TMP(scope), TMP_NORM(scope), OUT_NORM(scope) }

\* What a gate step may do to exports/.
GateFrame ==
  /\ DOMAIN exports' \cap WorkingFiles(ScopeAtGate) = { }
  /\ \A n \in DOMAIN exports' : n[2] = "csv"
  /\ (DOMAIN exports') \ { OUT(ScopeAtGate) }
       = (DOMAIN exports) \ (WorkingFiles(ScopeAtGate) \cup { OUT(ScopeAtGate) })
  /\ \A n \in (DOMAIN exports') \ { OUT(ScopeAtGate) } : exports'[n] = exports[n]
  /\ \/ exports'[OUT(ScopeAtGate)] = exports[TMP(ScopeAtGate)]
     \/ /\ OUT(ScopeAtGate) \in DOMAIN exports
        /\ exports'[OUT(ScopeAtGate)] = exports[OUT(ScopeAtGate)]

\* C28: a gate step leaves none of its working files (.tmp, .tmp.norm,
\* .norm) in exports/, and every file other than the stored extract of its
\* scope is there afterwards exactly as it was before.
C28_GateLeavesNoTemporaryFiles ==
  [][ (pc \in { "month_gate", "standings_gate" }) => GateFrame ]_vars

\* The gate of the second month replaced its stored extract while the
\* extract of the first month stayed, and only *.csv files are left.
C28_Witness ==
  /\ GateActed
  /\ lastGate.scope = DEFAULT_MONTHS[2]
  /\ lastGate.hasBaseline
  /\ lastGate.report = "Changes detected"
  /\ OUT(DEFAULT_MONTHS[1]) \in DOMAIN exports
  /\ exports[OUT(DEFAULT_MONTHS[2])] = lastGate.candidate
  /\ \A n \in DOMAIN exports : n[2] = "csv"
  /\ pc = "standings"

(***************************************************************************)
(* Properties of GET /api/games.                                           *)
(***************************************************************************)
\* name contains team, letter case apart.
ContainsIgnoringCase(name, team) ==
  \E pre, post \in 0..Len(name) :
    /\ pre + Len(team) + post = Len(name)
    /\ Lower(SubSeq(name, pre + 1, pre + Len(team))) = Lower(team)

\* The games of the dataset the parameters ask for.
Asked(g) ==
  IF Trim(arg.all) = << "1" >> THEN TRUE
  ELSE IF Trim(arg.team) = << >> THEN FALSE
  ELSE \/ ContainsIgnoringCase(Get(g, "away"), Trim(arg.team))
       \/ ContainsIgnoringCase(Get(g, "home"), Trim(arg.team))

\* C29: GET returns every game when all=1, else the games whose away or
\* home name contains the trimmed team, letter case apart, when that is
\* non-empty, else none; each as often as the dataset holds it, dated games
\* in ascending date order before the undated ones, and games that do not
\* differ in the sort keys in the order of the dataset.
C29_GamesApiFilter ==
  fn = "GET" =>
    /\ \A g \in Range(arg.games) \cup Range(res) :
         Count(res, g) = IF Asked(g) THEN Count(arg.games, g) ELSE 0
    /\ \A i, j \in 1..Len(res) : i < j => compareGames(res[i], res[j]) <= 0
    /\ res = sortGamesAsc(SelectSeq(arg.games, Asked))

\* all=1 together with a team that matches one of two games: both returned,
\* the dated one first although the dataset has it last.
C29_Witness ==
  /\ fn = "GET"
  /\ arg.all = << "1" >>
  /\ arg.team = << "d" >>
  /\ Len(arg.games) = 2
  /\ arg.games[1].game_date_iso = << >>
  /\ arg.games[2].game_date_iso # << >>
  /\ \E g \in Range(arg.games) :
       ~ContainsIgnoringCase(g.away, arg.team) /\ ~ContainsIgnoringCase(g.home, arg.team)
  /\ res = << arg.games[2], arg.games[1] >>

(***************************************************************************)
(* Properties of the Game Scores page.                                     *)
(***************************************************************************)
\* C21: from the moment the user empties the query until they next type,
\* pick a team or change tab, the query is empty, the view is "upcoming",
\* the search results are empty and lastSearchedRef is reset.
C21_ClearReturnsToDefaultView ==
  userCleared =>
    /\ page.query = << >>
    /\ page.view = "upcoming"
    /\ page.games = << >>
    /\ page.lastSearchedRef = << >>

\* C22: when no search request is in flight, the search results are those
\* of the search recorded in lastSearchedRef.
C22_LatestSearchWins ==
  (page.fetches = << >> /\ page.lastSearchedRef # << >>) =>
    page.games = GET(page.lastSearchedRef, << >>, Dataset)

\* The games listed under the Upcoming tab.
ListedUpcoming == Range(upcomingGames(page, env.today, env.zone))

Unplayed(g) == Get(g, "away_score") = << >> \/ Get(g, "home_score") = << >>

\* The game has a date in the form YYYY-MM-DD.
Dated(g) ==
  LET iso == Get(g, "game_date_iso")
  IN  /\ Len(iso) = 10
      /\ \A i \in { 1, 2, 3, 4, 6, 7, 9, 10 } : IsDigit(iso[i])
      /\ iso[5] = "-" /\ iso[8] = "-"

\* The calendar day of a dated game, counted like env.today.
GameDay(g) ==
  LET iso == Get(g, "game_date_iso")
      number(i, j) == IF i = j THEN DigitVal(iso[i])
                      ELSE 10 * DigitVal(iso[i]) + DigitVal(iso[j])
  IN  LocalDay(100 * number(1, 2) + number(3, 4), number(6, 7) - 1, number(9, 10))

ClocksGoForwardBefore(d) ==
  /\ env.zone = "America/Toronto"
  /\ env.today <= LocalDay(2026, 2, 8) /\ LocalDay(2026, 2, 8) < d

C27_SuggestionCursorInRange ==
  LET n == Len(suggestions(page))
  IN  /\ page.activeIndex = -1 \/ (0 <= page.activeIndex /\ page.activeIndex < n)
      /\ (~page.openSuggest \/ n = 0) => page.activeIndex = -1

\* Played count + Upcoming count = All count, game by game.
TabsPartition ==
  /\ Len(playedGames(page)) + Len(upcomingGames(page, env.today, env.zone))
       = Len(baseGames(page))
  /\ \A g \in Range(baseGames(page)) :
       Count(playedGames(page), g) + Count(upcomingGames(page, env.today, env.zone), g)
         = Count(baseGames(page), g)

\* C30: whenever the query is non-empty, every game of the search results is
\* counted in exactly one of the Played and Upcoming tabs.
C30_TabsPartitionResults == page.query # << >> => TabsPartition

\* C30 (amended): whenever the query is non-empty after trimming, every game
\* of the search results is counted in exactly one of the Played and
\* Upcoming tabs.
C30_TabsPartitionResultsOfNonBlankQuery == Trim(page.query) # << >> => TabsPartition

\* A search whose results hold a played game, unplayed games and a game with
\* one score only, of which some are outside the next 14 days.
C30_Witness ==
  /\ Trim(page.query) # << >>
  /\ page.fetches = << >>
  /\ Len(playedGames(page)) = 1
  /\ Len(upcomingGames(page, env.today, env.zone)) = 3
  /\ Len(page.games) = 4
  /\ Len(defaultUpcoming(page, env.today, env.zone)) < 3

====
